---- MODULE Spec2Model ----
(***************************************************************************)
(* Wi-SUN B-route client of house_power (server/wisun_client.py) and the   *)
(* poll loop that drives it (server/main.py).                              *)
(*                                                                         *)
(* Conventions.                                                            *)
(*  - Optional[T] is a sequence of length 0 (None) or 1 (the value).       *)
(*  - A Python str whose characters matter (hex payloads, addresses) is a  *)
(*    sequence of one-character strings; Slice is Python's s[a:b].         *)
(*  - A serial line is the list line.split(" "); every field is a token    *)
(*    (a TLA+ string) and Text(token) gives the token's characters.        *)
(***************************************************************************)
EXTENDS Integers, Sequences, FiniteSets, TLC

None == <<>>
Some(x) == <<x>>
IsNone(o) == o = <<>>
Val(o) == o[1]

Min(a, b) == IF a < b THEN a ELSE b

(***************************************************************************)
(* Python string primitives                                                *)
(***************************************************************************)
\* s[a:b] for 0 <= a <= b: the characters a..b-1, clipped to the string
Slice(s, a, b) == SubSeq(s, a + 1, Min(b, Len(s)))

\* s.startswith(p)
StartsWith(s, p) == Len(s) >= Len(p) /\ SubSeq(s, 1, Len(p)) = p

\* c.upper() for one character
Upper(c) ==
    CASE c = "a" -> "A" [] c = "b" -> "B" [] c = "c" -> "C"
      [] c = "d" -> "D" [] c = "e" -> "E" [] c = "f" -> "F"
      [] OTHER -> c

\* a comparison that leaves the case as it is
UpperStrKept(s) == s

UpperStr(s) == [i \in 1..Len(s) |-> Upper(s[i])]

HexChars == <<"0", "1", "2", "3", "4", "5", "6", "7",
              "8", "9", "A", "B", "C", "D", "E", "F">>

\* value of one hexadecimal digit, -1 when the character is no digit
DigitVal(c) ==
    IF \E i \in 1..16 : HexChars[i] = Upper(c)
    THEN (CHOOSE i \in 1..16 : HexChars[i] = Upper(c)) - 1
    ELSE -1

RECURSIVE IntHexAcc(_, _)
IntHexAcc(s, acc) ==
    IF s = <<>> THEN acc
    ELSE IF DigitVal(Head(s)) < 0 THEN -1
    ELSE IntHexAcc(Tail(s), acc * 16 + DigitVal(Head(s)))

\* int(s, 16) for strings of at most 7 digits; -1 stands for ValueError
\* (the empty string and every string holding a non-digit)
IntHex(s) == IF s = <<>> THEN -1 ELSE IntHexAcc(s, 0)

\* format(n, '02X')
Hex2(n) == <<HexChars[(n \div 16) + 1], HexChars[(n % 16) + 1]>>

(***************************************************************************)
(* ECHONET Lite constants and codec                                        *)
(***************************************************************************)
ECHONET_LITE_HEADER == <<"1", "0", "8", "1">>
ECHONET_LITE_TID == <<"0", "0", "0", "1">>
SEOJ == <<"0", "5", "F", "F", "0", "1">>
DEOJ == <<"0", "2", "8", "8", "0", "1">>

EPC_INSTANT_POWER == <<"E", "7">>
EPC_CUMULATIVE_ENERGY == <<"E", "0">>
EPC_CUMULATIVE_ENERGY_REV == <<"E", "3">>
EPC_CUMULATIVE_ENERGY_UNIT == <<"E", "1">>
EPC_CUMULATIVE_ENERGY_FIXED == <<"E", "A">>

_build_echonet_frame(epc, edt) ==
    LET esv == IF edt = <<>> THEN <<"6", "2">> ELSE <<"6", "1">>
        opc == <<"0", "1">>
        pdc == Hex2(Len(edt) \div 2)
    IN  ECHONET_LITE_HEADER \o ECHONET_LITE_TID \o SEOJ \o DEOJ
            \o esv \o opc \o epc \o pdc \o edt

\* the for-loop of _parse_echonet_response: n properties left, next one at pos.
\* A ValueError of int() is caught by the function's try/except: None.
RECURSIVE ParseProps(_, _, _, _)
ParseProps(data, expected_epc, pos, n) ==
    IF n = 0 THEN None
    ELSE LET epc == Slice(data, pos, pos + 2)
             pdc == IntHex(Slice(data, pos + 2, pos + 4))
         IN  IF pdc < 0 THEN None
             ELSE IF UpperStr(epc) = UpperStr(expected_epc)
                  THEN Some(Slice(data, pos + 4, pos + 4 + pdc * 2))
                  ELSE ParseProps(data, expected_epc, pos + 4 + pdc * 2, n - 1)

\* a parser whose minimum length asks for one byte of EDT
_parse_echonet_response_strict(data, expected_epc) ==
    IF Len(data) < 30 THEN None
    ELSE IF Slice(data, 0, 4) # <<"1", "0", "8", "1">> THEN None
    ELSE IF Slice(data, 20, 22) \notin {<<"7", "2">>, <<"7", "1">>, <<"5", "2">>} THEN None
    ELSE LET opc == IntHex(Slice(data, 22, 24))
         IN  IF opc < 0 THEN None ELSE ParseProps(data, expected_epc, 24, opc)

_parse_echonet_response(data, expected_epc) ==
    IF Len(data) < 24 THEN None
    ELSE IF Slice(data, 0, 4) # <<"1", "0", "8", "1">> THEN None
    ELSE IF Slice(data, 20, 22) \notin {<<"7", "2">>, <<"7", "1">>, <<"5", "2">>} THEN None
    ELSE LET opc == IntHex(Slice(data, 22, 24))
         IN  IF opc < 0 THEN None ELSE ParseProps(data, expected_epc, 24, opc)

\* a decoding that takes the low half-word for the high one
SignedInt32Swapped(edt) ==
    LET hi == IntHex(Slice(edt, 4, 8))
        lo == IntHex(Slice(edt, 0, 4))
    IN  IF hi >= 32768 THEN (hi - 65536) * 65536 + lo ELSE hi * 65536 + lo

\* the decoding of get_instant_power: int(edt, 16), minus 2^32 from 2^31 up.
\* The 32-bit value is put together from its two 16-bit halves so that no
\* intermediate value leaves the 32-bit range.
SignedInt32(edt) ==
    LET hi == IntHex(Slice(edt, 0, 4))
        lo == IntHex(Slice(edt, 4, 8))
    IN  IF hi >= 32768 THEN (hi - 65536) * 65536 + lo ELSE hi * 65536 + lo

\* a get_instant_power that decodes an EDT of any length
InstantPowerOfAnyLength(r) ==
    IF ~IsNone(r) /\ Val(r) # <<>>
    THEN Some(IntHex(Slice(Val(r), 0, 4)))
    ELSE None

\* the tail of get_instant_power, given what _send_echonet returned
InstantPowerOf(r) ==
    IF ~IsNone(r) /\ Val(r) # <<>> /\ Len(Val(r)) = 8
    THEN Some(SignedInt32(Val(r)))
    ELSE None

(***************************************************************************)
(* Serial lines.  The dongle's lines as the code sees them after           *)
(* readline().decode().strip() and split(" ").                             *)
(***************************************************************************)
\* a Get_Res frame of the meter: 1081 0001 028801 05FF01 72 01 <epc> <pdc> <edt>
GetRes(epc, edt) ==
    ECHONET_LITE_HEADER \o ECHONET_LITE_TID \o DEOJ \o SEOJ
        \o <<"7", "2">> \o <<"0", "1">> \o epc \o Hex2(Len(edt) \div 2) \o edt

\* the EDT the meter of the model answers with, per EPC
MeterEdt(epc) ==
    CASE epc = EPC_INSTANT_POWER -> <<"0", "0", "0", "0", "0", "3", "E", "8">>
      [] epc = EPC_CUMULATIVE_ENERGY_UNIT -> <<"0", "2">>
      [] epc = EPC_CUMULATIVE_ENERGY -> <<"0", "0", "0", "0", "0", "4", "D", "2">>
      [] epc = EPC_CUMULATIVE_ENERGY_REV -> <<"0", "0", "0", "0", "0", "0", "1", "0">>
      [] epc = EPC_CUMULATIVE_ENERGY_FIXED ->
            <<"0", "7", "E", "9", "0", "B", "0", "1", "0", "C", "1", "E", "0", "0",
              "0", "0", "0", "0", "0", "4", "D", "2">>

\* the payloads of the model
FrameE7 == GetRes(EPC_INSTANT_POWER, MeterEdt(EPC_INSTANT_POWER))
FrameE1 == GetRes(EPC_CUMULATIVE_ENERGY_UNIT, MeterEdt(EPC_CUMULATIVE_ENERGY_UNIT))
FrameE0 == GetRes(EPC_CUMULATIVE_ENERGY, MeterEdt(EPC_CUMULATIVE_ENERGY))
FrameE3 == GetRes(EPC_CUMULATIVE_ENERGY_REV, MeterEdt(EPC_CUMULATIVE_ENERGY_REV))
FrameEA == GetRes(EPC_CUMULATIVE_ENERGY_FIXED, MeterEdt(EPC_CUMULATIVE_ENERGY_FIXED))
\* a datagram that is no ECHONET Lite frame: the E7 answer under another header
FrameRaw == <<"0", "0", "0", "0">> \o Slice(FrameE7, 4, 36)
\* answers for E7 whose EDT is not 4 bytes long: Get_SNA (ESV 52) with an empty
\* EDT, and Get_Res with an EDT of 2 bytes
FrameSNA ==
    ECHONET_LITE_HEADER \o ECHONET_LITE_TID \o DEOJ \o SEOJ
        \o <<"5", "2">> \o <<"0", "1">> \o EPC_INSTANT_POWER \o <<"0", "0">>
FrameE7Short == GetRes(EPC_INSTANT_POWER, <<"0", "3", "E", "8">>)

\* the characters of the tokens whose characters the code looks at
Text(tok) ==
    CASE tok = "74" -> <<"7", "4">>
      [] tok = "2C" -> <<"2", "C">>
      [] tok = "FF02::1" -> <<"F", "F", "0", "2", ":", ":", "1">>
      [] tok = "FE80::C" -> <<"F", "E", "8", "0", ":", ":", "C">>
      [] tok = "GetRes:E7" -> FrameE7
      [] tok = "GetRes:E1" -> FrameE1
      [] tok = "GetRes:E0" -> FrameE0
      [] tok = "GetRes:E3" -> FrameE3
      [] tok = "GetRes:EA" -> FrameEA
      [] tok = "Raw:E7" -> FrameRaw
      [] tok = "GetSNA:E7" -> FrameSNA
      [] tok = "GetRes:E7:2" -> FrameE7Short
      [] tok = "ZZ" -> <<"Z", "Z">>
      [] OTHER -> <<>>

\* the payload token of the meter's answer to a Get of epc
ResToken(epc) ==
    CASE epc = EPC_INSTANT_POWER -> "GetRes:E7"
      [] epc = EPC_CUMULATIVE_ENERGY_UNIT -> "GetRes:E1"
      [] epc = EPC_CUMULATIVE_ENERGY -> "GetRes:E0"
      [] epc = EPC_CUMULATIVE_ENERGY_REV -> "GetRes:E3"
      [] epc = EPC_CUMULATIVE_ENERGY_FIXED -> "GetRes:EA"

\* ERXUDP SENDER DEST RPORT LPORT SENDERLLA RSSI SECURED SIDE DATALEN DATA  (SA2=1)
Erxudp(dest, rssi, data) ==
    <<"ERXUDP", "FE80::M", dest, "0E1A", "0E1A", "001D129012345678",
      rssi, "1", "0", "0012", data>>

\* ERXUDP SENDER DEST RPORT LPORT SENDERLLA SECURED SIDE DATALEN DATA  (SA2=0)
ErxudpNoRssi(dest, data) ==
    <<"ERXUDP", "FE80::M", dest, "0E1A", "0E1A", "001D129012345678",
      "1", "0", "0012", data>>

\* an ERXUDP line cut short: fewer than 10 fields
ErxudpShort == <<"ERXUDP", "FE80::M", "FE80::C", "0E1A", "0E1A">>

Event29 == <<"EVENT", "29", "FE80::M", "0">>
Event21(result) == <<"EVENT", "21", "FE80::M", "0", result>>
Event24 == <<"EVENT", "24", "FE80::M", "0">>
Event25 == <<"EVENT", "25", "FE80::M", "0">>

\* a read loop that tests for the wrong event number
IsEvent29Misread(parts) == Len(parts) >= 2 /\ parts[1] = "EVENT" /\ parts[2] = "24"

\* line.startswith("EVENT 29"), "EVENT 21", "ERXUDP"
IsEvent29(parts) == Len(parts) >= 2 /\ parts[1] = "EVENT" /\ parts[2] = "29"
IsEvent21(parts) == Len(parts) >= 2 /\ parts[1] = "EVENT" /\ parts[2] = "21"
IsErxudp(parts) == Len(parts) >= 1 /\ parts[1] = "ERXUDP"

\* a read loop that takes every EVENT 21 for a failure
Event21FailedAny(parts) ==
    Len(parts) >= 4 /\ parts[1] = "EVENT" /\ parts[2] = "21"

\* EVENT 21 with at least 4 fields whose last field is not "00"
Event21Failed(parts) ==
    IsEvent21(parts) /\ Len(parts) >= 4 /\ parts[Len(parts)] # "00"

\* a read loop without the multicast test
IsMulticastNever(dest) == FALSE

\* dest.startswith("FF02:")
IsMulticast(dest) == StartsWith(Text(dest), <<"F", "F", "0", "2", ":">>)

\* not data.startswith("1081")
NotEchonet(data) == ~StartsWith(Text(data), <<"1", "0", "8", "1">>)

\* a read loop that never records the RSSI
ErxudpFieldsNoRssi(parts) ==
    IF Len(parts) >= 10
    THEN [k |-> "ok", rssi |-> None, dest |-> parts[3],
          data |-> IF Len(parts) >= 11 THEN parts[11] ELSE parts[10]]
    ELSE [k |-> "skip", rssi |-> None, data |-> "", dest |-> ""]

\* The fields an ERXUDP line yields: k = "skip" when the line is too short,
\* "raise" when int(parts[6], 16) fails, else "ok" with the RSSI (layout SA2=1
\* only), DATA and DEST.
ErxudpFields(parts) ==
    IF Len(parts) >= 11
    THEN LET rssi_raw == IntHex(Text(parts[7]))
         IN  IF rssi_raw < 0
             THEN [k |-> "raise", rssi |-> None, data |-> "", dest |-> ""]
             ELSE [k |-> "ok", rssi |-> Some(rssi_raw - 107),
                   data |-> parts[11], dest |-> parts[3]]
    ELSE IF Len(parts) >= 10
    THEN [k |-> "ok", rssi |-> None, data |-> parts[10], dest |-> parts[3]]
    ELSE [k |-> "skip", rssi |-> None, data |-> "", dest |-> ""]

\* One pass of the read loop of _send_echonet over one line, for the
\* outstanding request of expected_epc:
\*   k     "return" (the request ends with v), "continue" or "raise"
\*   nr    _needs_reconnect is set
\*   rssi  the value assigned to last_rssi, if any
\*   hit   consecutive_timeouts is reset (a matching response)
OnLine(parts, expected_epc) ==
    LET keep == [k |-> "continue", v |-> None, nr |-> FALSE, rssi |-> None, hit |-> FALSE]
    IN  IF IsEvent29(parts) THEN [keep EXCEPT !.k = "return", !.nr = TRUE]
        ELSE IF Event21Failed(parts) THEN [keep EXCEPT !.k = "return", !.nr = TRUE]
        ELSE IF ~IsErxudp(parts) THEN keep
        ELSE LET f == ErxudpFields(parts)
             IN  IF f.k = "skip" THEN keep
                 ELSE IF f.k = "raise" THEN [keep EXCEPT !.k = "raise"]
                 ELSE IF IsMulticast(f.dest) THEN [keep EXCEPT !.rssi = f.rssi]
                 ELSE IF NotEchonet(f.data) THEN [keep EXCEPT !.rssi = f.rssi]
                 ELSE LET result == _parse_echonet_response(Text(f.data), expected_epc)
                      IN  IF ~IsNone(result)
                          THEN [k |-> "return", v |-> result, nr |-> FALSE,
                                rssi |-> f.rssi, hit |-> TRUE]
                          ELSE [keep EXCEPT !.rssi = f.rssi]

(***************************************************************************)
(* Program constants                                                       *)
(***************************************************************************)
\* a threshold of one timeout more
TimeoutsThresholdThree == 2 + 1

\* a threshold reached by every timeout
TimeoutsThresholdOne == 2 - 1

\* self.max_timeouts_before_reconnect
max_timeouts_before_reconnect == 2

\* a back-off window one poll short
BackoffPollsShort == 12 - 1

\* a back-off window one poll longer
BackoffPollsLong == 12 + 1

\* the value get_power_data gives _reconnect_backoff after a failed reconnect
BackoffPolls == 12

\* api.py 45: history = deque(maxlen=100)
HistoryMaxLen == 100

(***************************************************************************)
(* Bounds of the model                                                     *)
(***************************************************************************)
\* lines the serial buffer holds unread
MaxRx == 2
\* get_power_data calls counted after a failed pre-flight reconnect
TrackedCalls == 13
\* E1 requests counted per session
MaxUnitAsks == 3
\* half-words taken on each side of 0, of the sign change and of the top
MaxWord == 3
\* bytes in the EDTs given to the codec
MaxEdtBytes == 3
\* update_power_data calls followed
MaxUpdates == 103
\* the first calls, in which the reading passed in varies
FreeUpdates == 2
\* subscriptions the model lets the list grow to
MaxSubscriptions == 4
\* NatureRemoController.cooldown_seconds (cooldown_minutes * 60), in ticks
cooldown_seconds == 3
\* ticks of the clock followed
MaxTime == 7
\* WebSocket connections made to /ws/power
MaxClients == 3
\* properties in a payload given to the parser
MaxProps == 2
\* the largest RSSI field of an ERXUDP line (two hex digits)
MaxRssiRaw == 255

(***************************************************************************)
(* State                                                                   *)
(***************************************************************************)
VARIABLES
    scan_result,            \* Optional[ScanResult]
    ipv6_addr,              \* Optional[str]
    last_rssi,              \* Optional[int], dBm
    energy_unit,            \* Optional[float], as the exponent k of 10^k kWh
    consecutive_timeouts,
    _needs_reconnect,
    _reconnect_backoff,
    cache,                  \* the cache file: None (absent) or the JSON object in it
    rx,                     \* serial input buffer: lines received and not yet read
    owed,                   \* the meter has not yet answered the outstanding request
    late,                   \* EPC of an ended request whose answer is still under way
    sa2,                    \* the dongle took SKSREG SA2 1: ERXUDP lines carry the RSSI
    call,                   \* the public method running: "none", "connect", "power", "energy"
    pc,                     \* where the client is
    epc,                    \* EPC of the outstanding request
    getter,                 \* get_energy_data: 1, 2, 3 = E0, E3, EA is being read
    result,                 \* what the public method returns
    trace,                  \* this call's serial writes and events, in order
    hit,                    \* the line that resolved this call's last request
    seen,                   \* the line this call's request last read and passed over
    nth,                    \* this get_power_data call is the nth since the last
                            \* failed pre-flight reconnect (0: not counting)
    sinceFail,              \* get_power_data calls since that failure (-1: none)
    unit_asks,              \* E1 requests written since the session was joined
                            \* (counted up to MaxUnitAsks)
    current_data,           \* api.current_data: the latest reading
    history,                \* api.history: deque(maxlen=100) of readings
    connection_info,        \* api.connection_info
    now,                    \* the clock, in ticks
    recorded,               \* every reading update_power_data recorded, in call order
    _subscriptions,         \* WebPushNotifier._subscriptions: list of dicts
    subscriptions_file,     \* the subscriptions file: None (absent) or the list in it
    access_token,           \* NatureRemoController.access_token ("" when not configured)
    actions,                \* NatureRemoController.actions
    _last_action_time,      \* NatureRemoController._last_action_time
    last_run,               \* time.time() of this controller's last run of the actions
                            \* that did not skip the cooldown (None: no such run)
    connected_clients,      \* api.connected_clients: list of WebSocket objects
    websockets,             \* per WebSocket object: "new" (not yet accepted), "open",
                            \* "closed" (the peer is gone, the handler has not seen
                            \* it yet), "gone" (the handler has ended)
    broadcast,              \* broadcast_power_data: where it is (pc), the position of
                            \* the list iterator (i), the client being sent to, and
                            \* the list disconnected
    sent,                   \* the clients this broadcast has sent the data to, in order
    throughout,             \* the clients connected and open since this broadcast began
    _last_notification_time, \* WebPushNotifier._last_notification_time
    state,                  \* display client: the dict state of main()
    display_lock,           \* display client: the Lock; holder is the task that has
                            \* it ("none": free), waiting the tasks queued for it
    blink,                  \* display client: where blink_loop is suspended
    ws_task,                \* display client: where websocket_loop is suspended, with
                            \* its locals old_value (old), power (new) and the number
                            \* of animation frames shown (step)
    drawn                   \* display client: the last update of the display: the
                            \* task that made it (by), what it showed, and at that
                            \* moment the holder of the lock, whether update_display
                            \* was suspended in its animation, and state["ws"]

session == <<scan_result, ipv6_addr, last_rssi, energy_unit, consecutive_timeouts,
             _needs_reconnect, _reconnect_backoff>>
serial == <<rx, owed, late, sa2>>
control == <<call, pc, epc, getter, result>>
ghost == <<trace, hit, seen, nth, sinceFail, unit_asks>>
remo == <<access_token, actions, _last_action_time, last_run>>
ws_server == <<connected_clients, websockets, broadcast, sent, throughout>>
pico == <<state, display_lock, blink, ws_task, drawn>>
extra == <<ws_server, _last_notification_time, pico>>
rest == <<current_data, history, connection_info, now, recorded,
          _subscriptions, subscriptions_file, remo>>
app == <<rest, extra>>
beside_ws == <<session, cache, serial, control, ghost, rest, _last_notification_time, pico>>
beside_pico == <<session, cache, serial, control, ghost, rest, ws_server,
                 _last_notification_time>>
vars == <<session, cache, serial, control, ghost, app>>

NoResult ==
    [ok |-> FALSE, raised |-> FALSE, instant_power |-> None,
     cumulative_energy |-> None, cumulative_energy_reverse |-> None,
     fixed_energy |-> None, energy_unit |-> None]

\* websocket_loop suspended at an await at which its locals are not live
WsAt(where) == [pc |-> where, old |-> None, new |-> None, step |-> 0]

\* no broadcast_power_data is running
NoBroadcast == [pc |-> "idle", i |-> 0, client |-> 0, disconnected |-> <<>>]

\* api.py 29-48: the module-level state of the API server
ConnectionKeys == {"channel", "pan_id", "mac_addr", "ipv6_addr", "rssi", "rssi_quality"}

InitApp ==
    /\ current_data = [instant_power |-> None, timestamp |-> None]
    /\ history = <<>>
    /\ connection_info = [k \in ConnectionKeys |-> None]
    /\ now = 0
    /\ recorded = <<>>
    /\ _subscriptions = <<>>
    /\ subscriptions_file = None
    /\ access_token = ""
    /\ actions = <<>>
    /\ _last_action_time = 0
    /\ last_run = None
    /\ connected_clients = <<>>
    /\ websockets = [c \in 1..MaxClients |-> "new"]
    /\ broadcast = NoBroadcast
    /\ sent = <<>>
    /\ throughout = {}
    /\ _last_notification_time = 0
    /\ state = [current |-> None, warning |-> FALSE, blink_on |-> TRUE, ws |-> None]
    /\ display_lock = [holder |-> "none", waiting |-> <<>>]
    /\ blink = [pc |-> "sleep"]
    /\ ws_task = WsAt("connect")
    /\ drawn = [by |-> "main", what |-> "error", holder |-> "none", animating |-> FALSE,
                ws |-> None]

(***************************************************************************)
(* The cache file                                                          *)
(***************************************************************************)
CacheKeys == {"channel", "pan_id", "addr", "ipv6_addr"}

\* files a previous run can have left: none, one written by _save_cache (with
\* or without a resolved address), one without the optional key, a damaged one
PreviousCaches ==
    { None,
      Some([channel |-> "3B", pan_id |-> "ABCD", addr |-> "001D129012345678",
            ipv6_addr |-> Some("FE80::M")]),
      Some([channel |-> "3B", pan_id |-> "ABCD", addr |-> "001D129012345678",
            ipv6_addr |-> None]),
      Some([channel |-> "3B", pan_id |-> "ABCD", addr |-> "001D129012345678"]),
      Some([channel |-> "3B"]) }

\* a _load_cache that never finds the file
_load_cache_never(file) == None

\* _load_cache: None when the file is absent or a key is missing (the
\* exception is caught), else the ScanResult and the address read
_load_cache(file) ==
    IF IsNone(file) THEN None
    ELSE LET data == Val(file)
         IN  IF {"channel", "pan_id", "addr"} \subseteq DOMAIN data
             THEN Some([scan_result |-> [channel |-> data.channel,
                                         pan_id |-> data.pan_id,
                                         addr |-> data.addr],
                        ipv6_addr |-> IF "ipv6_addr" \in DOMAIN data
                                      THEN data.ipv6_addr ELSE None])
             ELSE None

\* a save that leaves the file as it was
_save_cache_skipped(file, sr, ipv6) == file

\* _save_cache: the file after the call
_save_cache(file, sr, ipv6) ==
    IF IsNone(sr) THEN file
    ELSE Some([channel |-> Val(sr).channel, pan_id |-> Val(sr).pan_id,
               addr |-> Val(sr).addr, ipv6_addr |-> ipv6])

(***************************************************************************)
(* Scan and join                                                           *)
(***************************************************************************)
\* a line of the scan output, "  <k>:<v>"
ScanLine(k, v) == [k |-> k, v |-> v]

\* what SKSCAN can print before EVENT 22 or the timeout
ScanOutputs ==
    { <<ScanLine("Channel", "21"), ScanLine("Pan ID", "8888"),
        ScanLine("Addr", "001D129012345678"), ScanLine("LQI", "E1")>>,
      <<ScanLine("Channel", "21"), ScanLine("Pan ID", "8888")>>,
      <<>> }

\* the value a key is left with by the for-loop of _scan ("" when never set)
RECURSIVE ScanField(_, _)
ScanField(lines, k) ==
    IF lines = <<>> THEN ""
    ELSE IF lines[Len(lines)].k = k THEN lines[Len(lines)].v
    ELSE ScanField(SubSeq(lines, 1, Len(lines) - 1), k)

\* a scan that does not wait for the Addr line
_scan_partial(lines) ==
    LET channel == ScanField(lines, "Channel")
        pan_id == ScanField(lines, "Pan ID")
        addr == ScanField(lines, "Addr")
    IN  IF channel # "" /\ pan_id # ""
        THEN Some([channel |-> channel, pan_id |-> pan_id, addr |-> addr])
        ELSE None

_scan(lines) ==
    LET channel == ScanField(lines, "Channel")
        pan_id == ScanField(lines, "Pan ID")
        addr == ScanField(lines, "Addr")
    IN  IF channel # "" /\ pan_id # "" /\ addr # ""
        THEN Some([channel |-> channel, pan_id |-> pan_id, addr |-> addr])
        ELSE None

\* what SKLL64 can yield: no FE80: line, or the address
Ll64Outputs == {None, Some("FE80::M")}

\* what the dongle can print while SKJOIN waits: nothing (the 30-s timeout),
\* the join's outcome, an outcome after the transmit result, EVENT 25 after
\* EVENT 24
JoinOutputs ==
    { <<>>, <<Event25>>, <<Event24>>, <<Event21("00")>>,
      <<Event21("00"), Event25>>, <<Event21("00"), Event24>>, <<Event24, Event25>> }

\* "EVENT 25" in line, "EVENT 24" in line
HasEvent(parts, n) == Len(parts) >= 2 /\ parts[1] = "EVENT" /\ parts[2] = n

\* a loop that takes any EVENT 25 among the lines for success
JoinResultAny25(lines) ==
    IF \E i \in 1..Len(lines) : HasEvent(lines[i], "25") THEN "joined"
    ELSE IF \E i \in 1..Len(lines) : HasEvent(lines[i], "24") THEN "refused"
    ELSE "timeout"

\* the for-loop over the lines SKJOIN returned, in connect and in reconnect
RECURSIVE JoinResult(_)
JoinResult(lines) ==
    IF lines = <<>> THEN "timeout"
    ELSE IF HasEvent(Head(lines), "25") THEN "joined"
    ELSE IF HasEvent(Head(lines), "24") THEN "refused"
    ELSE JoinResult(Tail(lines))

(***************************************************************************)
(* connect                                                                 *)
(***************************************************************************)
\* connect() up to the point where SKJOIN is written (or connect has failed):
\* go is true when SKJOIN is written.  The inputs are what the environment
\* does: the port opens, SKVER answers with an EVER line, the scan output,
\* the SKLL64 reply.
ConnectSetup(file, opened, ver, scanout, ll64) ==
    LET stop(t) == [go |-> FALSE, scan_result |-> None, ipv6_addr |-> None,
                    cache |-> file, trace |-> t]
        pre == <<"SKVER", "SKSETRBID", "SKSETPWD C", "SKSREG SA2">>
        loaded == _load_cache(file)
    IN  IF ~opened THEN stop(<<>>)
        ELSE IF ~ver THEN stop(<<"SKVER">>)
        ELSE IF ~IsNone(loaded)
        THEN LET sr == Some(Val(loaded).scan_result)
                 known == ~IsNone(Val(loaded).ipv6_addr)
                 ip == IF known THEN Val(loaded).ipv6_addr ELSE ll64
                 t == pre \o <<"load_cache", "SKSREG S2", "SKSREG S3">>
                          \o (IF known THEN <<>> ELSE <<"SKLL64", "save_cache">>)
             IN  [go |-> ~IsNone(ip), scan_result |-> sr, ipv6_addr |-> ip,
                  cache |-> IF known THEN file ELSE _save_cache(file, sr, ip),
                  trace |-> IF IsNone(ip) THEN t ELSE Append(t, "SKJOIN")]
        ELSE LET sr == _scan(scanout)
                 t == pre \o <<"SKSCAN", "SKSREG S2", "SKSREG S3", "SKLL64", "save_cache">>
             IN  IF IsNone(sr) THEN stop(Append(pre, "SKSCAN"))
                 ELSE [go |-> ~IsNone(ll64), scan_result |-> sr, ipv6_addr |-> ll64,
                       cache |-> _save_cache(file, sr, ll64),
                       trace |-> IF IsNone(ll64) THEN t ELSE Append(t, "SKJOIN")]

\* a connect() that keeps the file when the join is refused
CacheAfterJoinKept(file, outcome) == file

\* the cache file after the for-loop over SKJOIN's lines in connect()
CacheAfterJoin(file, outcome) == IF outcome = "refused" THEN None ELSE file

\* the event the trace records for a SKJOIN outcome
JoinEvent(outcome) ==
    CASE outcome = "joined" -> "join_ok"
      [] outcome = "refused" -> "join_refused"
      [] OTHER -> "join_timeout"

Init ==
    /\ scan_result = None
    /\ ipv6_addr = None
    /\ last_rssi = None
    /\ energy_unit = None
    /\ consecutive_timeouts = 0
    /\ _needs_reconnect = FALSE
    /\ _reconnect_backoff = 0
    /\ cache \in PreviousCaches
    /\ rx = <<>>
    /\ owed = FALSE
    /\ late = None
    /\ sa2 = TRUE
    /\ call = "none"
    /\ pc = "fresh"
    /\ epc = <<>>
    /\ getter = 0
    /\ result = NoResult
    /\ trace = <<>>
    /\ hit = None
    /\ seen = None
    /\ nth = 0
    /\ unit_asks = 0
    /\ sinceFail = -1
    /\ InitApp

\* connect(), lines 169-232: everything before the wait for SKJOIN's answer
Connect(opened, ver, scanout, ll64, rssi_on) ==
    /\ pc = "fresh"
    /\ sa2' = rssi_on
    /\ LET c == ConnectSetup(cache, opened, ver, scanout, ll64)
       IN  /\ scan_result' = c.scan_result
           /\ ipv6_addr' = c.ipv6_addr
           /\ cache' = c.cache
           /\ trace' = c.trace
           /\ pc' = IF c.go THEN "join" ELSE "done"
    /\ call' = "connect"
    /\ result' = NoResult
    /\ UNCHANGED <<last_rssi, energy_unit, consecutive_timeouts, _needs_reconnect,
                   _reconnect_backoff, rx, owed, late, epc, getter, hit, seen, nth, unit_asks,
                   sinceFail>>
    /\ UNCHANGED app

\* connect(), lines 232-251: SKJOIN's lines arrive (or the 30 s pass)
Join(lines) ==
    /\ pc = "join"
    /\ LET outcome == JoinResult(lines)
       IN  /\ cache' = CacheAfterJoin(cache, outcome)
           /\ result' = [NoResult EXCEPT !.ok = (outcome = "joined")]
           /\ trace' = Append(trace, JoinEvent(outcome))
    /\ pc' = "done"
    /\ rx' = <<>>
    /\ UNCHANGED <<session, owed, late, sa2, call, epc, getter, hit, seen, nth, sinceFail,
                   unit_asks>>
    /\ UNCHANGED app

(***************************************************************************)
(* reconnect                                                               *)
(***************************************************************************)
RejoinEvent(outcome) ==
    CASE outcome = "joined" -> "rejoin_ok"
      [] outcome = "refused" -> "rejoin_refused"
      [] OTHER -> "rejoin_timeout"

\* a reconnect() that scans for the meter again before it joins
ReconnectScanning(sr, ipv6, lines) ==
    LET outcome == IF IsNone(ipv6) THEN "no_address" ELSE JoinResult(lines)
    IN  [ok |-> outcome = "joined",
         trace |-> <<"SKTERM", "SKRESET", "drain", "SKSETRBID", "SKSETPWD C", "SKSCAN",
                     "SKJOIN", RejoinEvent(outcome)>>]

\* reconnect(): its serial writes, then the event of its outcome; lines is
\* what the dongle prints while SKJOIN waits.  The serial port is open.
Reconnect(sr, ipv6, lines) ==
    LET reset == <<"SKTERM", "SKRESET", "drain", "SKSETRBID", "SKSETPWD C">>
                    \o (IF IsNone(sr) THEN <<>> ELSE <<"SKSREG S2", "SKSREG S3">>)
        outcome == IF IsNone(ipv6) THEN "no_address" ELSE JoinResult(lines)
    IN  [ok |-> outcome = "joined",
         trace |-> IF IsNone(ipv6) THEN Append(reset, "rejoin_no_address")
                   ELSE reset \o <<"SKJOIN", RejoinEvent(outcome)>>]

\* a reconnect() that removes the file when the join is refused
CacheAfterRejoinDeleting(file, outcome) == IF outcome = "refused" THEN None ELSE file

\* the cache file after reconnect()
CacheAfterRejoin(file, outcome) == file

(***************************************************************************)
(* Requests                                                                *)
(***************************************************************************)
\* the answers still in the buffer when their request ends are answers to an
\* ended request from then on
Aged(buf) == [i \in 1..Len(buf) |->
                 IF buf[i].tag = "cur" THEN [buf[i] EXCEPT !.tag = "old"] ELSE buf[i]]

GetterEpc(g) ==
    CASE g = 1 -> EPC_CUMULATIVE_ENERGY
      [] g = 2 -> EPC_CUMULATIVE_ENERGY_REV
      [] g = 3 -> EPC_CUMULATIVE_ENERGY_FIXED

\* a unit map that lacks the codes 0A..0D
UnitExpSmall(code) ==
    CASE code = 0 -> 0 [] code = 1 -> -1 [] code = 2 -> -2 [] code = 3 -> -3
      [] code = 4 -> -4 [] OTHER -> -1

\* unit_map.get(code, 0.1), as the exponent k of 10^k
UnitExp(code) ==
    CASE code = 0 -> 0 [] code = 1 -> -1 [] code = 2 -> -2 [] code = 3 -> -3
      [] code = 4 -> -4 [] code = 10 -> 1 [] code = 11 -> 2 [] code = 12 -> 3
      [] code = 13 -> 4 [] OTHER -> -1

\* _get_energy_unit after its request returned r: the new self.energy_unit
EnergyUnitAfter(r, unit) ==
    IF ~IsNone(r) /\ Val(r) # <<>> /\ Len(Val(r)) = 2
    THEN Some(UnitExp(IntHex(Val(r))))
    ELSE unit

\* the multiplier a getter uses: the memoised unit or the default 0.1
UnitOrDefault(unit) == IF IsNone(unit) THEN -1 ELSE Val(unit)

\* get_cumulative_energy / get_cumulative_energy_reverse after the request
\* returned r: the raw value as two 16-bit halves, and the exponent
CumulativeOf(r, unit) ==
    IF ~IsNone(r) /\ Val(r) # <<>> /\ Len(Val(r)) = 8
    THEN LET hi == IntHex(Slice(Val(r), 0, 4))
             lo == IntHex(Slice(Val(r), 4, 8))
         IN  IF hi = 65535 /\ lo = 65534 THEN None
             ELSE Some(<<hi, lo, UnitOrDefault(unit)>>)
    ELSE None

\* get_fixed_cumulative_energy after the request returned r
FixedOf(r, unit) ==
    IF ~IsNone(r) /\ Val(r) # <<>> /\ Len(Val(r)) = 22
    THEN LET e == Val(r)
             hi == IntHex(Slice(e, 14, 18))
             lo == IntHex(Slice(e, 18, 22))
         IN  IF hi = 65535 /\ lo = 65534 THEN None
             ELSE Some(<<IntHex(Slice(e, 0, 4)), IntHex(Slice(e, 4, 6)),
                         IntHex(Slice(e, 6, 8)), IntHex(Slice(e, 8, 10)),
                         IntHex(Slice(e, 10, 12)), IntHex(Slice(e, 12, 14)),
                         hi, lo, UnitOrDefault(unit)>>)
    ELSE None

\* What the caller of _send_echonet does with its return value r, up to the
\* next serial write or the end of the public call:
\*   send   a new request (for .epc) is written; fresh: by the next getter
NextStep(r) ==
    IF call = "power"
    THEN [pc |-> "done", epc |-> <<>>, getter |-> 0, send |-> FALSE, fresh |-> FALSE,
          energy_unit |-> energy_unit,
          result |-> [result EXCEPT !.instant_power = InstantPowerOf(r)]]
    ELSE IF epc = EPC_CUMULATIVE_ENERGY_UNIT
    THEN [pc |-> "wait", epc |-> GetterEpc(getter), getter |-> getter, send |-> TRUE,
          fresh |-> FALSE, energy_unit |-> EnergyUnitAfter(r, energy_unit),
          result |-> result]
    ELSE LET res == CASE getter = 1 ->
                           [result EXCEPT !.cumulative_energy = CumulativeOf(r, energy_unit)]
                      [] getter = 2 ->
                           [result EXCEPT !.cumulative_energy_reverse =
                                              CumulativeOf(r, energy_unit)]
                      [] getter = 3 ->
                           [result EXCEPT !.fixed_energy = FixedOf(r, energy_unit)]
         IN  IF getter < 3
             THEN [pc |-> "wait", getter |-> getter + 1, send |-> TRUE, fresh |-> TRUE,
                   epc |-> IF IsNone(energy_unit) THEN EPC_CUMULATIVE_ENERGY_UNIT
                           ELSE GetterEpc(getter + 1),
                   energy_unit |-> energy_unit, result |-> res]
             ELSE [pc |-> "done", epc |-> <<>>, getter |-> 0, send |-> FALSE,
                   fresh |-> FALSE, energy_unit |-> energy_unit,
                   result |-> [res EXCEPT !.energy_unit = energy_unit]]

\* the count of E1 requests once a request for e is written
Asked(e) ==
    IF e = EPC_CUMULATIVE_ENERGY_UNIT /\ unit_asks < MaxUnitAsks
    THEN unit_asks + 1 ELSE unit_asks

\* _send_echonet returns r to its caller after the events evs
Complete(r, evs, buf) ==
    LET n == NextStep(r)
        t == trace \o evs
    IN  /\ pc' = n.pc
        /\ epc' = n.epc
        /\ getter' = n.getter
        /\ result' = n.result
        /\ energy_unit' = n.energy_unit
        /\ trace' = IF ~n.send THEN t
                    ELSE IF n.fresh THEN <<"SKSENDTO">> ELSE Append(t, "SKSENDTO")
        /\ rx' = Aged(buf)
        /\ owed' = n.send
        /\ late' = IF owed THEN Some(epc) ELSE late
        /\ seen' = IF n.send THEN None ELSE seen
        /\ unit_asks' = IF n.send THEN Asked(n.epc) ELSE unit_asks
        /\ UNCHANGED <<call, sa2>>

(***************************************************************************)
(* get_power_data                                                          *)
(***************************************************************************)
\* the count kept of get_power_data calls since a failed pre-flight reconnect
Counted == IF sinceFail >= 0 THEN sinceFail + 1 ELSE 0
CountOn == IF sinceFail >= 0 /\ sinceFail + 1 < TrackedCalls THEN sinceFail + 1 ELSE -1

\* a back-off poll that forgets to count down
PowerBackoffTickStuck ==
    /\ pc = "idle"
    /\ _reconnect_backoff > 0
    /\ _reconnect_backoff' = _reconnect_backoff
    /\ call' = "power"
    /\ pc' = "done"
    /\ result' = NoResult
    /\ trace' = <<"backoff_tick">>
    /\ nth' = Counted
    /\ unit_asks' = unit_asks
    /\ sinceFail' = CountOn
    /\ UNCHANGED <<scan_result, ipv6_addr, last_rssi, energy_unit, consecutive_timeouts,
                   _needs_reconnect, cache, serial, epc, getter, hit, seen>>
    /\ UNCHANGED app

\* lines 650-654: a poll during the back-off
PowerBackoffTick ==
    /\ pc = "idle"
    /\ _reconnect_backoff > 0
    /\ _reconnect_backoff' = _reconnect_backoff - 1
    /\ call' = "power"
    /\ pc' = "done"
    /\ result' = NoResult
    /\ trace' = <<"backoff_tick">>
    /\ nth' = Counted
    /\ unit_asks' = unit_asks
    /\ sinceFail' = CountOn
    /\ UNCHANGED <<scan_result, ipv6_addr, last_rssi, energy_unit, consecutive_timeouts,
                   _needs_reconnect, cache, serial, epc, getter, hit, seen>>
    /\ UNCHANGED app

\* a pre-flight that looks at the timeout count only
PreflightOnTimeoutsOnly == consecutive_timeouts >= max_timeouts_before_reconnect

\* the pre-flight condition of line 657
PreflightDue ==
    _needs_reconnect \/ consecutive_timeouts >= max_timeouts_before_reconnect

\* lines 656-678 when the pre-flight reconnect is due: reconnect, then either
\* the E7 request is written or the back-off starts
PowerPreflight(lines) ==
    /\ pc = "idle"
    /\ _reconnect_backoff = 0
    /\ PreflightDue
    /\ LET r == Reconnect(scan_result, ipv6_addr, lines)
       IN  IF r.ok
           THEN /\ consecutive_timeouts' = 0
                /\ _needs_reconnect' = FALSE
                /\ _reconnect_backoff' = 0
                /\ pc' = "wait"
                /\ epc' = EPC_INSTANT_POWER
                /\ owed' = TRUE
                /\ late' = late
                /\ trace' = Append(r.trace \o <<"drain">>, "SKSENDTO")
                /\ sinceFail' = CountOn
           ELSE /\ consecutive_timeouts' = 0
                /\ _needs_reconnect' = TRUE
                /\ _reconnect_backoff' = BackoffPolls
                /\ pc' = "done"
                /\ epc' = <<>>
                /\ owed' = FALSE
                /\ late' = late
                /\ trace' = r.trace
                /\ sinceFail' = 0
    /\ cache' = CacheAfterRejoin(cache, JoinResult(lines))
    /\ rx' = <<>>
    /\ call' = "power"
    /\ result' = NoResult
    /\ nth' = Counted
    /\ unit_asks' = IF Reconnect(scan_result, ipv6_addr, lines).ok THEN 0 ELSE unit_asks
    /\ UNCHANGED <<scan_result, ipv6_addr, last_rssi, energy_unit, sa2, getter, hit, seen>>
    /\ UNCHANGED app

\* a get_power_data that a second context enters while a request is outstanding
PowerRequestReentrant ==
    /\ pc \in {"idle", "wait"}
    /\ _reconnect_backoff = 0
    /\ ~PreflightDue
    /\ call' = "power"
    /\ pc' = "wait"
    /\ epc' = EPC_INSTANT_POWER
    /\ owed' = TRUE
    /\ trace' = IF pc = "wait" THEN Append(trace, "SKSENDTO") ELSE <<"SKSENDTO">>
    /\ result' = NoResult
    /\ nth' = Counted
    /\ unit_asks' = unit_asks
    /\ sinceFail' = CountOn
    /\ UNCHANGED <<session, cache, rx, late, sa2, getter, hit, seen>>
    /\ UNCHANGED app

\* lines 673-674 with no back-off and no reconnect due: the E7 request is written
PowerRequest ==
    /\ pc = "idle"
    /\ _reconnect_backoff = 0
    /\ ~PreflightDue
    /\ call' = "power"
    /\ pc' = "wait"
    /\ epc' = EPC_INSTANT_POWER
    /\ owed' = TRUE
    /\ trace' = <<"SKSENDTO">>
    /\ result' = NoResult
    /\ nth' = Counted
    /\ unit_asks' = unit_asks
    /\ sinceFail' = CountOn
    /\ UNCHANGED <<session, cache, rx, late, sa2, getter, hit, seen>>
    /\ UNCHANGED app

(***************************************************************************)
(* get_energy_data                                                         *)
(***************************************************************************)
\* lines 695-703 and 572-576: the first request of get_cumulative_energy
EnergyRequest ==
    /\ pc = "idle"
    /\ call' = "energy"
    /\ pc' = "wait"
    /\ getter' = 1
    /\ epc' = IF IsNone(energy_unit) THEN EPC_CUMULATIVE_ENERGY_UNIT
              ELSE EPC_CUMULATIVE_ENERGY
    /\ owed' = TRUE
    /\ trace' = <<"SKSENDTO">>
    /\ result' = NoResult
    /\ unit_asks' = Asked(epc')
    /\ UNCHANGED <<session, cache, rx, late, sa2, hit, seen, nth, sinceFail>>
    /\ UNCHANGED app

(***************************************************************************)
(* _send_echonet: the read loop and the deadline                           *)
(***************************************************************************)
\* lines 391-455: one line is read and handled
ReadLine ==
    /\ pc = "wait"
    /\ rx # <<>>
    /\ LET line == Head(rx)
           o == OnLine(line.parts, epc)
       IN  /\ last_rssi' = IF IsNone(o.rssi) THEN last_rssi ELSE o.rssi
           /\ _needs_reconnect' = (_needs_reconnect \/ o.nr)
           /\ consecutive_timeouts' = IF o.hit THEN 0 ELSE consecutive_timeouts
           /\ IF o.k = "continue"
              THEN /\ rx' = Tail(rx)
                   /\ seen' = Some(line.parts)
                   /\ UNCHANGED <<energy_unit, owed, late, control, trace, hit, unit_asks>>
              ELSE IF o.k = "raise"
              THEN /\ rx' = Aged(Tail(rx))
                   /\ pc' = "done"
                   /\ result' = [NoResult EXCEPT !.raised = TRUE]
                   /\ trace' = Append(trace, "raise")
                   /\ owed' = FALSE
                   /\ late' = IF owed THEN Some(epc) ELSE late
                   /\ seen' = None
                   /\ UNCHANGED <<energy_unit, call, epc, getter, hit, unit_asks>>
              ELSE /\ Complete(o.v, <<IF o.hit THEN "response"
                                      ELSE IF IsEvent29(line.parts) THEN "event29"
                                      ELSE "send_failed">>, Tail(rx))
                   /\ hit' = IF o.hit THEN Some(line) ELSE hit
    /\ UNCHANGED <<scan_result, ipv6_addr, _reconnect_backoff, cache, sa2, nth, sinceFail>>
    /\ UNCHANGED app

\* lines 457-459 and 479: the deadline passes below the threshold
Timeout ==
    /\ pc = "wait"
    /\ consecutive_timeouts + 1 < max_timeouts_before_reconnect
    /\ consecutive_timeouts' = consecutive_timeouts + 1
    /\ Complete(None, <<"timeout">>, rx)
    /\ UNCHANGED <<scan_result, ipv6_addr, last_rssi, _needs_reconnect,
                   _reconnect_backoff, cache, hit, nth, sinceFail>>
    /\ UNCHANGED app

\* a threshold branch that leaves the count as the timeout raised it
TimeoutsAfterThresholdKept(n) == n

\* lines 462-477: consecutive_timeouts after the threshold branch, entered
\* with the count n: 0 after a reconnect (293, 465) and 0 after a failed one (477)
TimeoutsAfterThreshold(n) == 0

\* lines 457-477: the deadline passes at the threshold; the immediate
\* reconnect, and on success the retry of the same request
TimeoutReconnect(lines) ==
    /\ pc = "wait"
    /\ consecutive_timeouts + 1 >= max_timeouts_before_reconnect
    /\ LET r == Reconnect(scan_result, ipv6_addr, lines)
       IN  IF r.ok
           THEN /\ trace' = trace \o <<"timeout">> \o r.trace \o <<"drain", "SKSENDTO">>
                /\ rx' = <<>>
                /\ owed' = TRUE
                /\ late' = IF owed THEN Some(epc) ELSE late
                /\ seen' = None
                /\ unit_asks' = IF epc = EPC_CUMULATIVE_ENERGY_UNIT THEN 1 ELSE 0
                /\ UNCHANGED <<energy_unit, control, sa2>>
           ELSE Complete(None, <<"timeout">> \o r.trace, <<>>)
    /\ consecutive_timeouts' = TimeoutsAfterThreshold(consecutive_timeouts + 1)
    /\ cache' = CacheAfterRejoin(cache, JoinResult(lines))
    /\ UNCHANGED <<scan_result, ipv6_addr, last_rssi, _needs_reconnect,
                   _reconnect_backoff, hit, nth, sinceFail>>
    /\ UNCHANGED app

(***************************************************************************)
(* The caller (main.py) and the environment                                *)
(***************************************************************************)
\* the public method returns to its caller
CallReturn ==
    /\ pc = "done"
    /\ pc' = IF call = "connect" /\ ~result.ok THEN "failed" ELSE "idle"
    /\ call' = "none"
    /\ result' = NoResult
    /\ trace' = <<>>
    /\ hit' = None
    /\ seen' = None
    /\ nth' = 0
    /\ UNCHANGED <<session, cache, serial, epc, getter, sinceFail, unit_asks>>
    /\ UNCHANGED app

\* main.py 226-227: a failed client is closed and a new one created
Restart ==
    /\ pc = "failed"
    /\ pc' = "fresh"
    /\ scan_result' = None
    /\ ipv6_addr' = None
    /\ last_rssi' = None
    /\ energy_unit' = None
    /\ consecutive_timeouts' = 0
    /\ _needs_reconnect' = FALSE
    /\ _reconnect_backoff' = 0
    /\ rx' = <<>>
    /\ sinceFail' = -1
    /\ owed' = FALSE
    /\ late' = None
    /\ sa2' = TRUE
    /\ unit_asks' = 0
    /\ UNCHANGED <<cache, call, epc, getter, result, trace, hit, seen, nth>>
    /\ UNCHANGED app

\* an ERXUDP line in the layout the session's SA2 setting gives
Datagram(dest, rssi, data) ==
    IF sa2 THEN Erxudp(dest, rssi, data) ELSE ErxudpNoRssi(dest, data)

\* lines the dongle prints on its own or for traffic that is no answer to a
\* request of this session: session events, a multicast datagram, a datagram
\* that is no ECHONET Lite frame, a unicast frame for another property
Unsolicited ==
    { Event29, Event21("00"), Event21("01"),
      Datagram("FF02::1", "2C", "GetRes:E7"),
      Datagram("FE80::C", "2C", "Raw:E7"),
      Datagram("FE80::C", "2C", "GetRes:E0") }

\* the answer of the meter to a Get of e
Answer(e) == Datagram("FE80::C", "74", ResToken(e))

\* The serial buffer is looked at only by a waiting request, so a line that
\* arrives between two polls is one that is there when the next wait begins.

\* the dongle prints a line of its own
Deliver(parts) ==
    /\ pc = "wait"
    /\ Len(rx) < MaxRx
    /\ rx' = Append(rx, [parts |-> parts, tag |-> "none"])
    /\ UNCHANGED <<session, cache, owed, late, sa2, control, ghost>>
    /\ UNCHANGED app

\* the meter's answer to the outstanding request arrives
MeterAnswer ==
    /\ pc = "wait"
    /\ owed
    /\ Len(rx) < MaxRx
    /\ rx' = Append(rx, [parts |-> Answer(epc), tag |-> "cur"])
    /\ owed' = FALSE
    /\ UNCHANGED <<session, cache, late, sa2, control, ghost>>
    /\ UNCHANGED app

\* the answer to a request that has ended arrives
LateAnswer ==
    /\ pc = "wait"
    /\ ~IsNone(late)
    /\ Len(rx) < MaxRx
    /\ rx' = Append(rx, [parts |-> Answer(Val(late)), tag |-> "old"])
    /\ late' = None
    /\ UNCHANGED <<session, cache, owed, sa2, control, ghost>>
    /\ UNCHANGED app

Next ==
    \/ \E opened \in BOOLEAN, ver \in BOOLEAN, scanout \in ScanOutputs,
          ll64 \in Ll64Outputs, rssi_on \in BOOLEAN :
           Connect(opened, ver, scanout, ll64, rssi_on)
    \/ \E lines \in JoinOutputs : Join(lines)
    \/ PowerBackoffTick
    \/ \E lines \in JoinOutputs : PowerPreflight(lines)
    \/ PowerRequest
    \/ ReadLine
    \/ Timeout
    \/ \E lines \in JoinOutputs : TimeoutReconnect(lines)
    \/ CallReturn
    \/ Restart
    \/ \E parts \in Unsolicited : Deliver(parts)
    \/ MeterAnswer
    \/ LateAnswer

Spec == Init /\ [][Next]_vars

\* The sessions in which the dongle prints session events and the meter
\* answers in time or not at all, when power_loop keeps polling (main.py
\* 130-152: every call returns and the next one is made), every request ends
\* (the 5-s deadline of _send_echonet), and the dongle answers the SKJOIN of
\* a pre-flight reconnect with EVENT 25 again and again.
SessionEvents == { Event29, Event21("00"), Event21("01") }

NextLive ==
    \/ \E opened \in BOOLEAN, ver \in BOOLEAN, scanout \in ScanOutputs,
          ll64 \in Ll64Outputs, rssi_on \in BOOLEAN :
           Connect(opened, ver, scanout, ll64, rssi_on)
    \/ \E lines \in JoinOutputs : Join(lines)
    \/ PowerBackoffTick
    \/ \E lines \in JoinOutputs : PowerPreflight(lines)
    \/ PowerRequest
    \/ ReadLine
    \/ Timeout
    \/ \E lines \in JoinOutputs : TimeoutReconnect(lines)
    \/ CallReturn
    \/ Restart
    \/ \E parts \in SessionEvents : Deliver(parts)
    \/ MeterAnswer

SpecLive ==
    /\ Init
    /\ [][NextLive]_vars
    /\ WF_vars(CallReturn)
    /\ WF_vars(PowerBackoffTick)
    /\ WF_vars(PowerRequest)
    /\ WF_vars(\E lines \in JoinOutputs : PowerPreflight(lines))
    /\ WF_vars(Timeout \/ \E lines \in JoinOutputs : TimeoutReconnect(lines))
    /\ SF_vars(PowerPreflight(<<Event25>>))

(***************************************************************************)
(* get_connection_info                                                     *)
(***************************************************************************)
\* a quality test with the bounds excluded
RssiQualityStrict(rssi) ==
    IF IsNone(rssi) THEN None
    ELSE IF Val(rssi) > -60 THEN Some("excellent")
    ELSE IF Val(rssi) > -70 THEN Some("good")
    ELSE IF Val(rssi) > -80 THEN Some("fair")
    ELSE Some("poor")

\* wisun_client.py 750-759: info["rssi_quality"]
RssiQuality(rssi) ==
    IF IsNone(rssi) THEN None
    ELSE IF Val(rssi) >= -60 THEN Some("excellent")
    ELSE IF Val(rssi) >= -70 THEN Some("good")
    ELSE IF Val(rssi) >= -80 THEN Some("fair")
    ELSE Some("poor")

\* wisun_client.py 737-761: the dict get_connection_info returns
get_connection_info ==
    [channel |-> IF IsNone(scan_result) THEN None ELSE Some(Val(scan_result).channel),
     pan_id |-> IF IsNone(scan_result) THEN None ELSE Some(Val(scan_result).pan_id),
     mac_addr |-> IF IsNone(scan_result) THEN None ELSE Some(Val(scan_result).addr),
     ipv6_addr |-> ipv6_addr,
     rssi |-> last_rssi,
     rssi_quality |-> RssiQuality(last_rssi)]

\* mock_client.py 105-112: rssi_quality of the mock client
MockRssiQuality(rssi) ==
    IF rssi >= -60 THEN "excellent"
    ELSE IF rssi >= -70 THEN "good"
    ELSE IF rssi >= -80 THEN "fair"
    ELSE "poor"

\* mock_client.py 114-121: the dict the mock client returns for the drawn rssi
MockConnectionInfo(rssi) ==
    [channel |-> Some("33"), pan_id |-> Some("MOCK"), mac_addr |-> Some("MOCK00000001"),
     ipv6_addr |-> Some("FE80:0000:0000:0000:MOCK:MOCK:MOCK:0001"),
     rssi |-> Some(rssi), rssi_quality |-> Some(MockRssiQuality(rssi))]

\* a joined client between two polls, with any last_rssi
InitInfo ==
    /\ scan_result = Some([channel |-> "21", pan_id |-> "8888", addr |-> "001D129012345678"])
    /\ ipv6_addr = Some("FE80::M")
    \* none yet, or int(field, 16) - 107 for a field of up to MaxRssiRaw
    /\ last_rssi \in {None} \cup {Some(raw - 107) : raw \in 0..MaxRssiRaw}
    /\ energy_unit = None
    /\ consecutive_timeouts = 0
    /\ _needs_reconnect = FALSE
    /\ _reconnect_backoff = 0
    /\ cache = None
    /\ rx = <<>>
    /\ owed = FALSE
    /\ late = None
    /\ sa2 = TRUE
    /\ call = "none"
    /\ pc = "idle"
    /\ epc = <<>>
    /\ getter = 0
    /\ result = NoResult
    /\ trace = <<>>
    /\ hit = None
    /\ seen = None
    /\ nth = 0
    /\ unit_asks = 0
    /\ sinceFail = -1
    /\ InitApp

\* main.py 137-138: power_loop asks the client for the connection info
GetConnectionInfo ==
    /\ pc = "idle"
    /\ call' = "info"
    /\ pc' = "done"
    /\ result' = get_connection_info
    /\ UNCHANGED <<session, cache, serial, epc, getter, ghost>>
    /\ UNCHANGED app

\* the same call when the client is the mock client
MockGetConnectionInfo(rssi) ==
    /\ pc = "idle"
    /\ call' = "mock_info"
    /\ pc' = "done"
    /\ result' = MockConnectionInfo(rssi)
    /\ UNCHANGED <<session, cache, serial, epc, getter, ghost>>
    /\ UNCHANGED app

\* update_connection_info has taken the dict
InfoReturn ==
    /\ pc = "done"
    /\ call \in {"info", "mock_info"}
    /\ call' = "none"
    /\ pc' = "idle"
    /\ result' = NoResult
    /\ UNCHANGED <<session, cache, serial, epc, getter, ghost>>
    /\ UNCHANGED app

NextInfo ==
    \/ GetConnectionInfo
    \* mock_client.py 103: random.randint(-80, -50)
    \/ \E rssi \in -80..-50 : MockGetConnectionInfo(rssi)
    \/ InfoReturn

SpecInfo == InitInfo /\ [][NextInfo]_vars

(***************************************************************************)
(* Connection attempts on their own: main.py's retry loop until connect()  *)
(* succeeds                                                                *)
(***************************************************************************)
NextConnect ==
    \/ \E opened \in BOOLEAN, ver \in BOOLEAN, scanout \in ScanOutputs,
          ll64 \in Ll64Outputs, rssi_on \in BOOLEAN :
           Connect(opened, ver, scanout, ll64, rssi_on)
    \/ \E lines \in JoinOutputs : Join(lines)
    \/ CallReturn
    \/ Restart

SpecConnect == Init /\ [][NextConnect]_vars

(***************************************************************************)
(* reconnect() on its own: called on a client whose connect() has returned *)
(***************************************************************************)
\* reconnect(), called on a client whose serial port is open (connect() wrote
\* SKVER), whatever connect() returned
ReconnectCall(lines) ==
    /\ \/ pc = "done" /\ call = "connect" /\ trace # <<>>
       \/ pc = "idle"
    /\ LET r == Reconnect(scan_result, ipv6_addr, lines)
       IN  /\ result' = [ok |-> r.ok, lines |-> lines]
           /\ trace' = r.trace
           /\ consecutive_timeouts' = IF r.ok THEN 0 ELSE consecutive_timeouts
    /\ cache' = CacheAfterRejoin(cache, JoinResult(lines))
    /\ rx' = <<>>
    /\ call' = "reconnect"
    /\ pc' = "done"
    /\ UNCHANGED <<scan_result, ipv6_addr, last_rssi, energy_unit, _needs_reconnect,
                   _reconnect_backoff, owed, late, sa2, epc, getter, hit, seen, nth,
                   sinceFail, unit_asks>>
    /\ UNCHANGED app

NextReconnect ==
    \/ \E opened \in BOOLEAN, ver \in BOOLEAN, scanout \in ScanOutputs,
          ll64 \in Ll64Outputs, rssi_on \in BOOLEAN :
           Connect(opened, ver, scanout, ll64, rssi_on)
    \/ \E lines \in JoinOutputs : Join(lines)
    \/ \E lines \in JoinOutputs : ReconnectCall(lines)
    \/ CallReturn
    \/ Restart

SpecReconnect == Init /\ [][NextReconnect]_vars

(***************************************************************************)
(* The codec on its own                                                    *)
(***************************************************************************)
\* 16-bit words near 0, near the sign change and near the top
Words ==
    (0..MaxWord) \cup ((32767 - MaxWord)..(32768 + MaxWord))
        \cup ((65535 - MaxWord)..65535)

\* the 4-byte big-endian EDT the meter sends for the words hi, lo
PowerEdt(hi, lo) ==
    Hex2(hi \div 256) \o Hex2(hi % 256) \o Hex2(lo \div 256) \o Hex2(lo % 256)

RECURSIVE EdtsOfLen(_)
EdtsOfLen(n) ==
    IF n = 0 THEN {<<>>}
    ELSE {b \o e : b \in { <<"0", "0">>, <<"7", "2">>, <<"E", "7">>, <<"F", "F">> },
                   e \in EdtsOfLen(n - 1)}

\* the EDTs of the model: every string of up to MaxEdtBytes of those bytes,
\* and the EDTs the meter of the model answers with
CodecEdts ==
    UNION {EdtsOfLen(n) : n \in 0..MaxEdtBytes}
        \cup { MeterEdt(e) : e \in {EPC_INSTANT_POWER, EPC_CUMULATIVE_ENERGY_UNIT,
                                     EPC_CUMULATIVE_ENERGY, EPC_CUMULATIVE_ENERGY_REV,
                                     EPC_CUMULATIVE_ENERGY_FIXED} }

\* a client object; the codec reads none of its fields
InitCodec ==
    /\ scan_result = None
    /\ ipv6_addr = None
    /\ last_rssi = None
    /\ energy_unit = None
    /\ consecutive_timeouts = 0
    /\ _needs_reconnect = FALSE
    /\ _reconnect_backoff = 0
    /\ cache = None
    /\ rx = <<>>
    /\ owed = FALSE
    /\ late = None
    /\ sa2 = TRUE
    /\ call = "none"
    /\ pc = "codec"
    /\ epc = <<>>
    /\ getter = 0
    /\ result = NoResult
    /\ trace = <<>>
    /\ hit = None
    /\ seen = None
    /\ nth = 0
    /\ unit_asks = 0
    /\ sinceFail = -1
    /\ InitApp

\* get_instant_power 527-533 applied to the EDT for the words hi, lo
DecodePower(hi, lo) ==
    /\ pc = "codec"
    /\ call' = "decode"
    /\ result' = [edt |-> PowerEdt(hi, lo), hi |-> hi, lo |-> lo,
                  instant_power |-> InstantPowerOf(Some(PowerEdt(hi, lo)))]
    /\ pc' = "done"
    /\ UNCHANGED <<session, cache, serial, epc, getter, ghost>>
    /\ UNCHANGED app

\* _build_echonet_frame for a Get of e, and _parse_echonet_response applied
\* to the Get_Res frame that answers it with edt
RoundTrip(e, edt) ==
    /\ pc = "codec"
    /\ call' = "codec"
    /\ result' = [epc |-> e, edt |-> edt,
                  frame |-> _build_echonet_frame(e, <<>>),
                  response |-> GetRes(e, edt),
                  parsed |-> _parse_echonet_response(GetRes(e, edt), e)]
    /\ pc' = "done"
    /\ UNCHANGED <<session, cache, serial, epc, getter, ghost>>
    /\ UNCHANGED app

\* the value is handed to the caller, who may call the codec again
CodecReturn ==
    /\ pc = "done"
    /\ call \in {"decode", "codec", "unit", "cumulative", "parse", "send"}
    /\ pc' = "codec"
    /\ call' = "none"
    /\ result' = NoResult
    /\ UNCHANGED <<session, cache, serial, epc, getter, ghost>>
    /\ UNCHANGED app

NextCodec ==
    \* the low words: those, and the low words of 000003E8 and FFFFFED4
    \/ \E hi \in Words, lo \in Words \cup {1000, 65236} : DecodePower(hi, lo)
    \/ \E e \in { EPC_CUMULATIVE_ENERGY, EPC_CUMULATIVE_ENERGY_REV, EPC_INSTANT_POWER,
                  <<"E", "8">>, EPC_CUMULATIVE_ENERGY_FIXED },
          edt \in CodecEdts : RoundTrip(e, edt)
    \/ CodecReturn

SpecCodec == InitCodec /\ [][NextCodec]_vars

(***************************************************************************)
(* The parser on payloads of every kind                                    *)
(***************************************************************************)
\* properties a payload can carry: EPC (in either case) and EDT
PayloadProps ==
    { [epc |-> <<"E", "7">>, edt |-> <<"0", "0", "0", "0", "0", "3", "E", "8">>],
      [epc |-> <<"e", "7">>, edt |-> <<"0", "0", "0", "1">>],
      [epc |-> <<"E", "7">>, edt |-> <<>>],
      [epc |-> <<"E", "0">>, edt |-> <<"0", "0", "0", "0", "0", "0", "1", "0">>] }

RECURSIVE PropsText(_)
PropsText(props) ==
    IF props = <<>> THEN <<>>
    ELSE Head(props).epc \o Hex2(Len(Head(props).edt) \div 2) \o Head(props).edt
             \o PropsText(Tail(props))

\* the payload with these fields: EHD, TID, SEOJ, DEOJ, ESV, OPC, properties
Payload(ehd, esv, opc, props) ==
    ehd \o ECHONET_LITE_TID \o DEOJ \o SEOJ \o esv \o Hex2(opc) \o PropsText(props)

\* the first n characters of a payload (all of it when n < 0)
Cut(data, n) == IF n < 0 THEN data ELSE Slice(data, 0, n)

\* the ESVs of a payload: the three accepted, and one that is not
PayloadEsvs == {<<"7", "2">>, <<"7", "1">>, <<"5", "2">>, <<"7", "3">>}

\* _parse_echonet_response applied to a payload
ParsePayload(ehd, esv, opc, props, cut, expected_epc) ==
    /\ pc = "codec"
    /\ call' = "parse"
    /\ result' = [ehd |-> ehd, esv |-> esv, opc |-> opc, props |-> props,
                  expected_epc |-> expected_epc,
                  data |-> Cut(Payload(ehd, esv, opc, props), cut),
                  parsed |-> _parse_echonet_response(
                                 Cut(Payload(ehd, esv, opc, props), cut), expected_epc)]
    /\ pc' = "done"
    /\ UNCHANGED <<session, cache, serial, epc, getter, ghost>>
    /\ UNCHANGED app

NextParse ==
    \/ \E ehd \in {ECHONET_LITE_HEADER, <<"1", "0", "8", "2">>}, esv \in PayloadEsvs, opc \in 0..MaxProps,
          props \in UNION {[1..n -> PayloadProps] : n \in 0..MaxProps},
          cut \in {-1, 0, 23},
          expected_epc \in {<<"E", "7">>, <<"e", "7">>, <<"E", "0">>} :
           ParsePayload(ehd, esv, opc, props, cut, expected_epc)
    \/ CodecReturn

SpecParse == InitCodec /\ [][NextParse]_vars

(***************************************************************************)
(* The serial write of a request                                           *)
(***************************************************************************)
\* a write of the command line alone, ended with CR LF
SendtoWriteCrlf(ipv6, e) ==
    <<83, 75, 83, 69, 78, 68, 84, 79, 32, 49, 32>> \o <<13, 10>>

\* _send_echonet 375-384: the bytes handed to ser.write for a Get of e, a
\* sequence of byte values: cmd.encode() + bytes.fromhex(frame)
SendtoWrite(ipv6, e) ==
    LET \* ord(c) of the ASCII characters a command holds
        ord(c) ==
            CASE c = " " -> 32 [] c = ":" -> 58
              [] c = "0" -> 48 [] c = "1" -> 49 [] c = "2" -> 50 [] c = "3" -> 51
              [] c = "4" -> 52 [] c = "5" -> 53 [] c = "6" -> 54 [] c = "7" -> 55
              [] c = "8" -> 56 [] c = "9" -> 57
              [] c = "A" -> 65 [] c = "B" -> 66 [] c = "C" -> 67 [] c = "D" -> 68
              [] c = "E" -> 69 [] c = "F" -> 70 [] c = "K" -> 75 [] c = "N" -> 78
              [] c = "O" -> 79 [] c = "S" -> 83 [] c = "T" -> 84
        \* str.encode() of an ASCII string
        encode(t) == [i \in 1..Len(t) |-> ord(t[i])]
        \* bytes.fromhex(t)
        fromhex(t) == [i \in 1..(Len(t) \div 2) |-> IntHex(<<t[2 * i - 1], t[2 * i]>>)]
        \* format(n, '04X') for n < 65536
        hex4(n) == Hex2(n \div 256) \o Hex2(n % 256)
        frame == _build_echonet_frame(e, <<>>)
        frame_bytes == fromhex(frame)
        cmd == <<"S", "K", "S", "E", "N", "D", "T", "O", " ", "1", " ">> \o ipv6
                   \o <<" ", "0", "E", "1", "A", " ", "1", " ", "0", " ">>
                   \o hex4(Len(frame_bytes)) \o <<" ">>
    IN  encode(cmd) \o frame_bytes

\* _send_echonet 371-387 on a client whose serial port is open and whose
\* ipv6_addr is ipv6 (None, "" or an address): the writes made for one request
SendRequest(ipv6, e) ==
    /\ pc = "codec"
    /\ call' = "send"
    /\ result' = [ipv6 |-> ipv6, epc |-> e,
                  writes |-> IF IsNone(ipv6) \/ Val(ipv6) = <<>> THEN <<>>
                             ELSE <<SendtoWrite(Val(ipv6), e)>>]
    /\ pc' = "done"
    /\ UNCHANGED <<session, cache, serial, epc, getter, ghost>>
    /\ UNCHANGED app

NextSend ==
    \/ \E e \in { EPC_INSTANT_POWER, EPC_CUMULATIVE_ENERGY_UNIT, EPC_CUMULATIVE_ENERGY,
                  EPC_CUMULATIVE_ENERGY_REV, EPC_CUMULATIVE_ENERGY_FIXED },
          g \in { <<"1", "2", "3", "4">>, <<"5", "6", "7", "8">>, <<"9", "A", "B", "C">>,
                  <<"D", "E", "F", "0">>, <<"0", "0", "0", "0">> },
          h \in { <<>>, <<"1", "2", "3", "4">>, <<"5", "6", "7", "8">>,
                  <<"9", "A", "B", "C">>, <<"D", "E", "F", "0">>, <<"0", "0", "0", "0">> },
          set \in BOOLEAN :
           \* the address SKLL64 printed: FE80:0000:0000:0000:021D:1290:gggg:hhhh
           SendRequest(IF ~set THEN None
                       ELSE IF h = <<>> THEN Some(<<>>)
                       ELSE Some(<<"F", "E", "8", "0", ":", "0", "0", "0", "0", ":",
                                   "0", "0", "0", "0", ":", "0", "0", "0", "0", ":",
                                   "0", "2", "1", "D", ":", "1", "2", "9", "0", ":">>
                                     \o g \o <<":">> \o h), e)
    \/ CodecReturn

SpecSend == InitCodec /\ [][NextSend]_vars

(***************************************************************************)
(* The energy unit and the cumulative readings on their own                *)
(***************************************************************************)
\* _get_energy_unit 544-563 for an E1 answer whose EDT is the byte code, on a
\* client that has not memoised a unit yet
DecodeUnit(code) ==
    /\ pc = "codec"
    /\ IsNone(energy_unit)
    /\ call' = "unit"
    /\ energy_unit' = EnergyUnitAfter(Some(Hex2(code)), energy_unit)
    /\ result' = [code |-> code, edt |-> Hex2(code), energy_unit |-> energy_unit']
    /\ pc' = "done"
    /\ UNCHANGED <<scan_result, ipv6_addr, last_rssi, consecutive_timeouts,
                   _needs_reconnect, _reconnect_backoff, cache, serial, epc, getter,
                   ghost>>
    /\ UNCHANGED app

\* get_cumulative_energy 573-583 for an E0 answer whose EDT holds the words
\* hi, lo, with the unit the client has (or has not) memoised
DecodeCumulative(hi, lo) ==
    /\ pc = "codec"
    /\ call' = "cumulative"
    /\ result' = [edt |-> PowerEdt(hi, lo), hi |-> hi, lo |-> lo, unit |-> energy_unit,
                  cumulative_energy |-> CumulativeOf(Some(PowerEdt(hi, lo)), energy_unit)]
    /\ pc' = "done"
    /\ UNCHANGED <<session, cache, serial, epc, getter, ghost>>
    /\ UNCHANGED app

\* a new client object: no unit memoised
NewClient ==
    /\ pc = "codec"
    /\ ~IsNone(energy_unit)
    /\ energy_unit' = None
    /\ UNCHANGED <<scan_result, ipv6_addr, last_rssi, consecutive_timeouts,
                   _needs_reconnect, _reconnect_backoff, cache, serial, control, ghost>>
    /\ UNCHANGED app

NextUnits ==
    \/ \E code \in 0..255 : DecodeUnit(code)
    \/ \E hi \in Words, lo \in Words : DecodeCumulative(hi, lo)
    \/ NewClient
    \/ CodecReturn

SpecUnits == InitCodec /\ [][NextUnits]_vars

(***************************************************************************)
(* Sessions in which the dongle prints irregular datagrams                 *)
(***************************************************************************)
\* malformed ERXUDP lines: one cut short, one whose RSSI field is no hex number
Malformed == { ErxudpShort, Datagram("FE80::C", "ZZ", "GetRes:E7") }

\* unicast frames for E7 whose EDT is not 4 bytes long
OddLength ==
    { Datagram("FE80::C", "2C", "GetSNA:E7"), Datagram("FE80::C", "2C", "GetRes:E7:2") }

Irregular == {Event29} \cup Malformed \cup OddLength

NextFrames ==
    \/ \E opened \in BOOLEAN, ver \in BOOLEAN, scanout \in ScanOutputs,
          ll64 \in Ll64Outputs, rssi_on \in BOOLEAN :
           Connect(opened, ver, scanout, ll64, rssi_on)
    \/ \E lines \in JoinOutputs : Join(lines)
    \/ PowerBackoffTick
    \/ \E lines \in JoinOutputs : PowerPreflight(lines)
    \/ PowerRequest
    \/ ReadLine
    \/ Timeout
    \/ \E lines \in JoinOutputs : TimeoutReconnect(lines)
    \/ CallReturn
    \/ Restart
    \/ \E parts \in Irregular : Deliver(parts)
    \/ MeterAnswer
    \/ LateAnswer

SpecFrames == Init /\ [][NextFrames]_vars

(***************************************************************************)
(* Sessions in which get_energy_data is called as well                     *)
(***************************************************************************)
\* get_energy_data is called between the polls of power_loop, at the start of
\* a back-off window or outside one; the meter answers in time or not at all.
\* what SKJOIN is answered with in these sessions
EnergyJoinOutputs == { <<>>, <<Event25>>, <<Event24>> }

NextEnergy ==
    \/ \E scanout \in ScanOutputs : Connect(TRUE, TRUE, scanout, Some("FE80::M"), TRUE)
    \/ \E lines \in EnergyJoinOutputs : Join(lines)
    \/ PowerBackoffTick
    \/ \E lines \in EnergyJoinOutputs : PowerPreflight(lines)
    \/ PowerRequest
    \/ (_reconnect_backoff \in {0, BackoffPolls} /\ EnergyRequest)
    \/ ReadLine
    \/ Timeout
    \/ \E lines \in EnergyJoinOutputs : TimeoutReconnect(lines)
    \/ CallReturn
    \/ Restart
    \/ Deliver(Event29)
    \/ MeterAnswer

SpecEnergy == Init /\ [][NextEnergy]_vars

(***************************************************************************)
(* reconnect() called on clients in use                                    *)
(***************************************************************************)
\* reconnect() on a client between two public calls that has made requests:
\* some answered, some timed out
NextRejoin ==
    \/ \E scanout \in ScanOutputs : Connect(TRUE, TRUE, scanout, Some("FE80::M"), TRUE)
    \/ \E lines \in EnergyJoinOutputs : Join(lines)
    \/ PowerRequest
    \/ EnergyRequest
    \/ ReadLine
    \/ Timeout
    \/ \E lines \in EnergyJoinOutputs : TimeoutReconnect(lines)
    \/ \E lines \in JoinOutputs : ReconnectCall(lines)
    \/ CallReturn
    \/ Restart
    \/ MeterAnswer

SpecRejoin == Init /\ [][NextRejoin]_vars

(***************************************************************************)
(* The API server (server/api.py): readings and their history              *)
(***************************************************************************)
\* the API server with an idle client
InitApi ==
    /\ scan_result = None
    /\ ipv6_addr = None
    /\ last_rssi = None
    /\ energy_unit = None
    /\ consecutive_timeouts = 0
    /\ _needs_reconnect = FALSE
    /\ _reconnect_backoff = 0
    /\ cache = None
    /\ rx = <<>>
    /\ owed = FALSE
    /\ late = None
    /\ sa2 = TRUE
    /\ call = "none"
    /\ pc = "api"
    /\ epc = <<>>
    /\ getter = 0
    /\ result = NoResult
    /\ trace = <<>>
    /\ hit = None
    /\ seen = None
    /\ nth = 0
    /\ unit_asks = 0
    /\ sinceFail = -1
    /\ InitApp

\* deque.append on a deque with maxlen: a full deque drops its oldest item
deque_append(d, x) ==
    IF Len(d) >= HistoryMaxLen THEN Append(Tail(d), x) ELSE Append(d, x)

\* list(history)[:limit]: the oldest items
FirstItems(l, limit) ==
    IF limit >= Len(l) THEN l ELSE SubSeq(l, 1, limit)

\* list(history)[-limit:] for limit > 0
LastItems(l, limit) ==
    IF limit >= Len(l) THEN l ELSE SubSeq(l, Len(l) - limit + 1, Len(l))

\* a handler that returns the oldest items
get_history_oldest(h, limit) == IF limit > 0 THEN FirstItems(h, limit) ELSE h

\* GET /api/history?limit=
get_history(h, limit) == IF limit > 0 THEN LastItems(h, limit) ELSE h

\* the readings power_loop passes in its nth call
PowerReadings(n) ==
    IF n < FreeUpdates THEN {None, Some(1000)} ELSE {Some(1000 + n)}

update_power_data(power) ==
    /\ pc = "api"
    /\ Len(recorded) < MaxUpdates
    /\ now' = now + 1
    /\ current_data' = [instant_power |-> power, timestamp |-> Some(now')]
    /\ history' = deque_append(history, current_data')
    /\ recorded' = Append(recorded, current_data')
    /\ UNCHANGED <<session, cache, serial, control, ghost, connection_info,
                   _subscriptions, subscriptions_file, remo>>
    /\ UNCHANGED extra

GetHistory(limit) ==
    /\ pc = "api"
    /\ call' = "get_history"
    /\ pc' = "done"
    /\ result' = [limit |-> limit, body |-> get_history(history, limit)]
    /\ UNCHANGED <<session, cache, serial, epc, getter, ghost, app>>

\* the response is sent
ApiReturn ==
    /\ pc = "done"
    /\ pc' = "api"
    /\ call' = "none"
    /\ result' = NoResult
    /\ UNCHANGED <<session, cache, serial, epc, getter, ghost, app>>

NextHistory ==
    \/ \E power \in PowerReadings(Len(recorded)) : update_power_data(power)
    \/ \E limit \in {-1, 0, 1, 3, HistoryMaxLen, HistoryMaxLen + 2} : GetHistory(limit)
    \/ ApiReturn

SpecHistory == InitApi /\ [][NextHistory]_vars

(***************************************************************************)
(* The API server: connection information                                  *)
(***************************************************************************)
\* an update that forgets the fields it is not given
dict_replace(old, info) ==
    [k \in DOMAIN old \cup DOMAIN info |-> IF k \in DOMAIN info THEN info[k] ELSE None]

\* dict.update: old, with the items of info put over it
dict_update(old, info) ==
    [k \in DOMAIN old \cup DOMAIN info |-> IF k \in DOMAIN info THEN info[k] ELSE old[k]]

\* the keys the updates of the model carry, and the values they give them:
\* a key is left out of the dict (<<>>) or carries one of its values
Choice(k) ==
    CASE k = "channel" -> {<<>>, <<Some("21")>>, <<Some("33")>>}
      [] k = "rssi" -> {<<>>, <<Some(-65)>>, <<Some(-57)>>}
      [] k = "rssi_quality" -> {<<>>, <<Some("good")>>, <<Some("excellent")>>}

\* the dicts passed to update_connection_info: any subset of the keys
Infos ==
    { LET pick == [channel |-> c, rssi |-> r, rssi_quality |-> q]
      IN  [k \in {x \in {"channel", "rssi", "rssi_quality"} : pick[x] # <<>>} |-> pick[k][1]] :
          c \in Choice("channel"), r \in Choice("rssi"), q \in Choice("rssi_quality") }

update_connection_info(info) ==
    /\ pc = "api"
    /\ call' = "update_connection_info"
    /\ pc' = "done"
    /\ result' = [info |-> info, before |-> connection_info]
    /\ connection_info' = dict_update(connection_info, info)
    /\ UNCHANGED <<session, cache, serial, epc, getter, ghost, current_data, history,
                   now, recorded, _subscriptions, subscriptions_file, remo>>
    /\ UNCHANGED extra

\* GET /api/connection
get_connection ==
    /\ pc = "api"
    /\ call' = "get_connection"
    /\ pc' = "done"
    /\ result' = [body |-> connection_info]
    /\ UNCHANGED <<session, cache, serial, epc, getter, ghost, app>>

NextConnection ==
    \/ \E info \in Infos : update_connection_info(info)
    \/ get_connection
    \/ ApiReturn

SpecConnection == InitApi /\ [][NextConnection]_vars

(***************************************************************************)
(* Web Push subscriptions (server/web_push_notifier.py)                    *)
(***************************************************************************)
\* subscription.get("endpoint"): None when the key is missing
\* `not endpoint`: None or the empty string
NoEndpoint(subscription) ==
    IsNone(subscription.endpoint) \/ subscription.endpoint = Some("")

\* the places of the list that hold the endpoint
PlacesOf(subs, endpoint) == {i \in 1..Len(subs) : subs[i].endpoint = endpoint}

\* an add_subscription that appends without looking for the endpoint
add_subscription_append(subs, subscription) ==
    IF NoEndpoint(subscription)
    THEN [subs |-> subs, ret |-> FALSE, save |-> FALSE]
    ELSE [subs |-> Append(subs, subscription), ret |-> TRUE, save |-> TRUE]

\* add_subscription: the new list, the value returned, and whether the file
\* is written
add_subscription(subs, subscription) ==
    IF NoEndpoint(subscription)
    THEN [subs |-> subs, ret |-> FALSE, save |-> FALSE]
    ELSE LET at == PlacesOf(subs, subscription.endpoint)
         IN  IF at # {}
             THEN LET i == CHOOSE i \in at : \A j \in at : i <= j
                  IN  [subs |-> [subs EXCEPT ![i] = subscription], ret |-> TRUE,
                       save |-> TRUE]
             ELSE [subs |-> Append(subs, subscription), ret |-> TRUE, save |-> TRUE]

\* remove_subscription
remove_subscription(subs, endpoint) ==
    LET kept == SelectSeq(subs, LAMBDA sub : sub.endpoint # endpoint)
    IN  [subs |-> kept, ret |-> Len(kept) < Len(subs), save |-> Len(kept) < Len(subs)]

\* _save_subscriptions: the file after the write; when the write fails the
\* error is logged and the file stays
FileAfterSave(written, subs) == IF written THEN Some(subs) ELSE subscriptions_file

\* the subscriptions clients send, and the endpoints they unsubscribe
Endpoints == {"https://a", "https://b", "https://c"}
Subscriptions ==
    { [endpoint |-> e, keys |-> k] :
          e \in {None, Some("")} \cup {Some(x) : x \in Endpoints}, k \in {"k1", "k2"} }

AddSubscription(subscription, written) ==
    /\ pc = "api"
    /\ Len(_subscriptions) < MaxSubscriptions
    /\ LET r == add_subscription(_subscriptions, subscription)
       IN  /\ _subscriptions' = r.subs
           /\ subscriptions_file' =
                 IF r.save THEN FileAfterSave(written, r.subs) ELSE subscriptions_file
           /\ result' = [arg |-> subscription, before |-> _subscriptions,
                         file |-> subscriptions_file, ret |-> r.ret]
    /\ call' = "add_subscription"
    /\ pc' = "done"
    /\ UNCHANGED <<session, cache, serial, epc, getter, ghost, current_data, history,
                   connection_info, now, recorded, remo>>
    /\ UNCHANGED extra

\* remove_subscription, called by the unsubscribe handler and by send() for an
\* endpoint that answered 404 or 410
RemoveSubscription(endpoint, written) ==
    /\ pc = "api"
    /\ LET r == remove_subscription(_subscriptions, endpoint)
       IN  /\ _subscriptions' = r.subs
           /\ subscriptions_file' =
                 IF r.save THEN FileAfterSave(written, r.subs) ELSE subscriptions_file
           /\ result' = [arg |-> endpoint, before |-> _subscriptions,
                         file |-> subscriptions_file, ret |-> r.ret]
    /\ call' = "remove_subscription"
    /\ pc' = "done"
    /\ UNCHANGED <<session, cache, serial, epc, getter, ghost, current_data, history,
                   connection_info, now, recorded, remo>>
    /\ UNCHANGED extra

\* the server starts again: __init__ loads the list from the file, and no
\* notification has been sent
NewNotifier ==
    /\ pc = "api"
    /\ _subscriptions' = IF IsNone(subscriptions_file) THEN <<>> ELSE Val(subscriptions_file)
    /\ _last_notification_time' = 0
    /\ <<_subscriptions', _last_notification_time'>> # <<_subscriptions, _last_notification_time>>
    /\ UNCHANGED <<session, cache, serial, control, ghost, current_data, history,
                   connection_info, now, recorded, subscriptions_file, remo, ws_server, pico>>

NextPush ==
    \/ \E subscription \in Subscriptions, written \in BOOLEAN :
           AddSubscription(subscription, written)
    \/ \E endpoint \in {Some(x) : x \in Endpoints}, written \in BOOLEAN :
           RemoveSubscription(endpoint, written)
    \/ NewNotifier
    \/ ApiReturn

SpecPush == InitApi /\ [][NextPush]_vars

(***************************************************************************)
(* Nature Remo actions (server/nature_remo_controller.py)                  *)
(***************************************************************************)
\* time.time(): epoch seconds, far past the first cooldown window
time_time == 2 * cooldown_seconds + now

\* the cooldown test of execute_actions (line 62)
InCooldown(skip_cooldown, t, last) ==
    ~skip_cooldown /\ t - last < cooldown_seconds

\* a controller for which every run starts the cooldown
LastActionTimeAlways(skip_cooldown, t, last) == t

\* _last_action_time after a run (lines 67-68)
LastActionTimeAfter(skip_cooldown, t, last) == IF ~skip_cooldown THEN t ELSE last

\* create_nature_remo_controller / __init__
NewController(token, acts) ==
    /\ pc = "api"
    /\ access_token' = token
    /\ actions' = acts
    /\ _last_action_time' = 0
    /\ last_run' = None
    /\ <<token, acts>> # <<access_token, actions>>
    /\ UNCHANGED <<session, cache, serial, control, ghost, current_data, history,
                   connection_info, now, recorded, _subscriptions, subscriptions_file>>
    /\ UNCHANGED extra

\* execute_actions; oks[i] is what _execute_action returns for the ith action
execute_actions(skip_cooldown, oks) ==
    /\ pc = "api"
    /\ DOMAIN oks = 1..Len(actions)
    /\ call' = "execute_actions"
    /\ pc' = "done"
    /\ IF access_token = "" \/ actions = <<>>
          \/ InCooldown(skip_cooldown, time_time, _last_action_time)
       THEN /\ result' = [skip_cooldown |-> skip_cooldown, at |-> time_time,
                          before |-> _last_action_time, prev |-> last_run,
                          executed |-> <<>>, ret |-> FALSE]
            /\ UNCHANGED <<_last_action_time, last_run>>
       ELSE /\ _last_action_time' =
                  LastActionTimeAfter(skip_cooldown, time_time, _last_action_time)
            /\ last_run' = IF skip_cooldown THEN last_run ELSE Some(time_time)
            /\ result' = [skip_cooldown |-> skip_cooldown, at |-> time_time,
                          before |-> _last_action_time, prev |-> last_run,
                          executed |-> actions,
                          ret |-> \A i \in 1..Len(actions) : oks[i]]
    /\ UNCHANGED <<session, cache, serial, epc, getter, ghost, current_data, history,
                   connection_info, now, recorded, _subscriptions, subscriptions_file,
                   access_token, actions>>
    /\ UNCHANGED extra

\* a second passes
Tick ==
    /\ pc = "api"
    /\ now < MaxTime
    /\ now' = now + 1
    /\ UNCHANGED <<session, cache, serial, control, ghost, current_data, history,
                   connection_info, recorded, _subscriptions, subscriptions_file, remo>>
    /\ UNCHANGED extra

NextRemo ==
    \/ \E token \in {"", "token"}, acts \in {<<>>, <<"light">>, <<"light", "aircon_settings">>} :
           NewController(token, acts)
    \/ \E skip_cooldown \in BOOLEAN, oks \in UNION {[1..n -> BOOLEAN] : n \in 0..2} :
           execute_actions(skip_cooldown, oks)
    \/ Tick
    \/ ApiReturn

SpecRemo == InitApi /\ [][NextRemo]_vars

(***************************************************************************)
(* WebPushNotifier.send: one delivery round.  send() has no await in it,   *)
(* so a call runs from its first line to its return in one step.           *)
(***************************************************************************)
\* what webpush() does for one subscription: it returns ("sent"), raises
\* WebPushException carrying the push service's response (pywebpush raises it
\* for every status above 202; here 404, 410 and 500), raises WebPushException
\* without a response ("no response"), or raises something else ("error")
PushOutcomes == {"sent", "404", "410", "500", "no response", "error"}

\* e.response of the WebPushException: None, or the status code of the
\* requests.Response that pywebpush put there
ResponseOf(outcome) ==
    CASE outcome = "404" -> Some(404)
      [] outcome = "410" -> Some(410)
      [] outcome = "500" -> Some(500)
      [] OTHER -> None

\* line 172, `e.response and e.response.status_code in (404, 410)`: the left
\* operand is tested for truth, and a requests.Response is true exactly when
\* its status code is below 400 (Response.__bool__ returns Response.ok)
GoneResponse(response) ==
    /\ ~IsNone(response)
    /\ Val(response) < 400
    /\ Val(response) \in {404, 410}

\* lines 156-175: the endpoints collected in failed_endpoints, in list order
RECURSIVE failed_endpoints(_, _)
failed_endpoints(subs, outcomes) ==
    IF subs = <<>> THEN <<>>
    ELSE (IF GoneResponse(ResponseOf(Head(outcomes)))
          THEN <<Head(subs).endpoint>> ELSE <<>>)
         \o failed_endpoints(Tail(subs), Tail(outcomes))

\* lines 178-179: remove_subscription for every collected endpoint
RECURSIVE RemoveFailed(_, _)
RemoveFailed(subs, endpoints) ==
    IF endpoints = <<>> THEN subs
    ELSE RemoveFailed(remove_subscription(subs, Head(endpoints)).subs, Tail(endpoints))

\* send(); outcomes[i] is what webpush does for the ith subscription, written
\* whether the writes of the subscriptions file succeed
Send(outcomes, written) ==
    /\ pc = "api"
    /\ Len(outcomes) = Len(_subscriptions)
    /\ call' = "push"
    /\ pc' = "done"
    /\ IF time_time - _last_notification_time < cooldown_seconds \/ _subscriptions = <<>>
       THEN /\ \A i \in 1..Len(outcomes) : outcomes[i] = "sent"
            /\ result' = [at |-> time_time, last |-> _last_notification_time,
                          before |-> _subscriptions, pushed |-> <<>>, ret |-> 0]
            /\ UNCHANGED <<_subscriptions, subscriptions_file, _last_notification_time>>
       ELSE LET kept == RemoveFailed(_subscriptions,
                                     failed_endpoints(_subscriptions, outcomes))
            IN  /\ _last_notification_time' = time_time
                /\ _subscriptions' = kept
                /\ subscriptions_file' =
                      IF Len(kept) < Len(_subscriptions)
                      THEN FileAfterSave(written, kept) ELSE subscriptions_file
                /\ result' = [at |-> time_time, last |-> _last_notification_time,
                              before |-> _subscriptions, pushed |-> outcomes,
                              ret |-> Cardinality({i \in 1..Len(outcomes) :
                                                      outcomes[i] = "sent"})]
    /\ UNCHANGED <<session, cache, serial, epc, getter, ghost, current_data, history,
                   connection_info, now, recorded, remo, ws_server, pico>>

NextPushSend ==
    \/ \E e \in Endpoints : AddSubscription([endpoint |-> Some(e), keys |-> "k1"], TRUE)
    \/ \E outcomes \in [1..Len(_subscriptions) -> PushOutcomes], written \in BOOLEAN :
           Send(outcomes, written)
    \/ NewNotifier
    \/ Tick
    \/ ApiReturn

SpecPushSend == InitApi /\ [][NextPushSend]_vars

(***************************************************************************)
(* The API server: WebSocket clients and broadcast_power_data.  The server *)
(* runs on one asyncio event loop: a coroutine runs until its next await,  *)
(* where the handlers of other connections can run.                        *)
(***************************************************************************)
\* list.remove(x) for an x that is in the list: its first occurrence goes
list_remove(l, x) ==
    LET k == CHOOSE i \in 1..Len(l) : l[i] = x /\ \A j \in 1..(i - 1) : l[j] # x
    IN  SubSeq(l, 1, k - 1) \o SubSeq(l, k + 1, Len(l))

\* api.py 130-131: the loop over disconnected; list.remove raises ValueError
\* for a client that is not in the list
RECURSIVE RemoveDisconnected(_, _)
RemoveDisconnected(clients, disconnected) ==
    IF disconnected = <<>> THEN [clients |-> clients, raised |-> FALSE]
    ELSE IF \A i \in 1..Len(clients) : clients[i] # Head(disconnected)
    THEN [clients |-> clients, raised |-> TRUE]
    ELSE RemoveDisconnected(list_remove(clients, Head(disconnected)), Tail(disconnected))

\* api.py 288-292: a connection is accepted and its WebSocket appended
WsAccept(c) ==
    /\ pc = "api"
    /\ websockets[c] = "new"
    /\ \A d \in 1..(c - 1) : websockets[d] # "new"
    /\ websockets' = [websockets EXCEPT ![c] = "open"]
    /\ connected_clients' = Append(connected_clients, c)
    /\ UNCHANGED <<beside_ws, broadcast, sent,
                   throughout>>

\* the peer of a connection goes away
WsPeerClose(c) ==
    /\ pc = "api"
    /\ websockets[c] = "open"
    /\ websockets' = [websockets EXCEPT ![c] = "closed"]
    /\ throughout' = throughout \ {c}
    /\ UNCHANGED <<beside_ws, connected_clients,
                   broadcast, sent>>

\* api.py 301-310: receive_text raises WebSocketDisconnect in the handler of a
\* closed connection; its finally clause removes the WebSocket if it is listed
WsHandlerEnd(c) ==
    /\ pc = "api"
    /\ websockets[c] = "closed"
    /\ websockets' = [websockets EXCEPT ![c] = "gone"]
    /\ connected_clients' = IF \E i \in 1..Len(connected_clients) : connected_clients[i] = c
                            THEN list_remove(connected_clients, c)
                            ELSE connected_clients
    /\ UNCHANGED <<beside_ws, broadcast, sent,
                   throughout>>

\* the tail of a broadcast from the point where the for-loop of line 123 asks
\* its list iterator (at position i) for the next client: either the next
\* send_text is awaited, or the loop ends and lines 130-131 run
BroadcastNext(clients, i, disconnected) ==
    IF i < Len(clients)
    THEN [clients |-> clients,
          broadcast |-> [pc |-> "send", i |-> i + 1, client |-> clients[i + 1],
                         disconnected |-> disconnected]]
    ELSE LET r == RemoveDisconnected(clients, disconnected)
         IN  [clients |-> r.clients,
              broadcast |-> [pc |-> IF r.raised THEN "raised" ELSE "done", i |-> i,
                             client |-> 0, disconnected |-> disconnected]]

\* api.py 115-124: broadcast_power_data is called (main.py 143) and runs to
\* its first await, or returns at once when no client is connected
BroadcastStart ==
    /\ pc = "api"
    /\ broadcast.pc = "idle"
    /\ IF connected_clients = <<>>
       THEN /\ broadcast' = [NoBroadcast EXCEPT !.pc = "done"]
            /\ UNCHANGED connected_clients
       ELSE LET n == BroadcastNext(connected_clients, 0, <<>>)
            IN  /\ broadcast' = n.broadcast
                /\ connected_clients' = n.clients
    /\ sent' = <<>>
    /\ throughout' = {c \in 1..MaxClients :
                         /\ websockets[c] = "open"
                         /\ \E i \in 1..Len(connected_clients) : connected_clients[i] = c}
    /\ UNCHANGED <<beside_ws, websockets>>

\* api.py 124-131: the awaited send_text ends, with the data sent (ok) or with
\* an exception, and the coroutine runs on to its next await or to its end.
\* A send to an open connection succeeds, one to a connection whose handler
\* has ended raises, one to a connection whose peer is gone may do either.
BroadcastSent(ok) ==
    /\ pc = "api"
    /\ broadcast.pc = "send"
    /\ websockets[broadcast.client] = "open" => ok
    /\ websockets[broadcast.client] = "gone" => ~ok
    /\ LET disconnected == IF ok THEN broadcast.disconnected
                           ELSE Append(broadcast.disconnected, broadcast.client)
           n == BroadcastNext(connected_clients, broadcast.i, disconnected)
       IN  /\ broadcast' = n.broadcast
           /\ connected_clients' = n.clients
    /\ sent' = IF ok THEN Append(sent, broadcast.client) ELSE sent
    /\ UNCHANGED <<beside_ws, websockets, throughout>>

\* the broadcast has returned or raised (main.py 143, 149-150); power_loop
\* goes on to its next poll
BroadcastReturn ==
    /\ pc = "api"
    /\ broadcast.pc \in {"done", "raised"}
    /\ broadcast' = NoBroadcast
    /\ sent' = <<>>
    /\ throughout' = {}
    /\ UNCHANGED <<beside_ws, connected_clients,
                   websockets>>

NextBroadcast ==
    \/ \E c \in 1..MaxClients : WsAccept(c)
    \/ \E c \in 1..MaxClients : WsPeerClose(c)
    \/ \E c \in 1..MaxClients : WsHandlerEnd(c)
    \/ BroadcastStart
    \/ \E ok \in BOOLEAN : BroadcastSent(ok)
    \/ BroadcastReturn

SpecBroadcast == InitApi /\ [][NextBroadcast]_vars

(***************************************************************************)
(* The display client (pico_scroll_client): blink_loop and websocket_loop  *)
(* are tasks of one uasyncio loop, so each runs from one await to the      *)
(* next without the other running.  keepalive_loop touches neither the     *)
(* state nor the display and is left out.                                  *)
(***************************************************************************)
\* display.py 9
DIGIT_HEIGHT == 5

\* display.is_warning, with WARNING_RATIO = 0.75 written as 3/4
is_warning(power, contract_amperage) == power * 4 >= contract_amperage * 100 * 3

\* display.draw_number: what it shows for a value; None does not normalise
draw_number(number) == IF IsNone(number) THEN "error" ELSE "number"

\* Lock.acquire up to its yield, by a lock that lets every task in
acquire_unlocked(lock, task) == [lock EXCEPT !.holder = task]

\* Lock.acquire up to its yield: a free lock is taken, otherwise the task
\* queues for it
acquire(lock, task) ==
    IF lock.holder = "none" THEN [lock EXCEPT !.holder = task]
    ELSE [lock EXCEPT !.waiting = Append(@, task)]

\* Lock.release: the lock passes to the first task waiting, if any
release(lock) ==
    IF lock.waiting # <<>>
    THEN [holder |-> Head(lock.waiting), waiting |-> Tail(lock.waiting)]
    ELSE [holder |-> "none", waiting |-> <<>>]

\* the record of a display update
Drawn(by, what, lock, s) ==
    [by |-> by, what |-> what, holder |-> lock.holder,
     animating |-> ws_task.pc = "animate", ws |-> s.ws]

\* main.py 27-36: blink_loop wakes from its sleep and runs to its next await
BlinkWake ==
    /\ blink.pc = "sleep"
    /\ IF state.warning /\ ~IsNone(state.current)
       THEN LET s == [state EXCEPT !.blink_on = ~state.blink_on]
                l == acquire(display_lock, "blink")
            IN  /\ state' = s
                /\ IF l.holder = "blink"
                   THEN /\ drawn' = Drawn("blink", draw_number(s.current), l, s)
                        /\ display_lock' = release(l)
                        /\ UNCHANGED blink
                   ELSE /\ display_lock' = l
                        /\ blink' = [pc |-> "lock"]
                        /\ UNCHANGED drawn
       ELSE /\ state' = [state EXCEPT !.blink_on = TRUE]
            /\ UNCHANGED <<display_lock, blink, drawn>>
    /\ UNCHANGED <<beside_pico, ws_task>>

\* main.py 31-33: the lock has passed to blink_loop, which draws
\* state["current"] as it is now
BlinkLockTaken ==
    /\ blink.pc = "lock"
    /\ display_lock.holder = "blink"
    /\ drawn' = Drawn("blink", draw_number(state.current), display_lock, state)
    /\ display_lock' = release(display_lock)
    /\ blink' = [pc |-> "sleep"]
    /\ UNCHANGED <<beside_pico, state, ws_task>>

\* main.py 52-53: the connection is made
WsConnected ==
    /\ ws_task.pc = "connect"
    /\ state' = [state EXCEPT !.ws = Some("ws")]
    /\ ws_task' = WsAt("recv")
    /\ UNCHANGED <<beside_pico, display_lock, blink, drawn>>

\* main.py 73-81: connect or recv raises (or the message is not JSON); the
\* handler runs to its next await
WsError ==
    /\ ws_task.pc \in {"connect", "recv"}
    /\ LET s == [state EXCEPT !.ws = None, !.current = None, !.warning = FALSE]
           l == acquire(display_lock, "ws")
       IN  /\ state' = s
           /\ IF l.holder = "ws"
              THEN /\ drawn' = Drawn("ws", "error", l, s)
                   /\ display_lock' = release(l)
                   /\ ws_task' = WsAt("backoff")
              ELSE /\ display_lock' = l
                   /\ ws_task' = WsAt("lock_error")
                   /\ UNCHANGED drawn
    /\ UNCHANGED <<beside_pico, blink>>

\* main.py 78-81: the lock has passed to the handler
WsErrorLockTaken ==
    /\ ws_task.pc = "lock_error"
    /\ display_lock.holder = "ws"
    /\ drawn' = Drawn("ws", "error", display_lock, state)
    /\ display_lock' = release(display_lock)
    /\ ws_task' = WsAt("backoff")
    /\ UNCHANGED <<beside_pico, state, blink>>

\* main.py 81, 50-52: RECONNECT_INTERVAL is over and connect is called
WsReconnect ==
    /\ ws_task.pc = "backoff"
    /\ ws_task' = WsAt("connect")
    /\ UNCHANGED <<beside_pico, state, display_lock, blink, drawn>>

\* display.update_display(old, new) called with the lock l held, up to its
\* first await or, when there is no animation, up to line 56 of main.py
UpdateDisplay(old, new, l) ==
    IF IsNone(old)
    THEN /\ drawn' = Drawn("ws", "number", l, state)
         /\ display_lock' = release(l)
         /\ ws_task' = WsAt("recv")
    ELSE /\ drawn' = Drawn("ws", "frame", l, state)
         /\ display_lock' = l
         /\ ws_task' = [pc |-> "animate", old |-> old, new |-> new, step |-> 1]

\* main.py 56-72: a message arrives; power is None for a message without a
\* reading
WsMessage(power, contract_amperage) ==
    /\ ws_task.pc = "recv"
    /\ IF IsNone(power)
       THEN UNCHANGED <<state, display_lock, ws_task, drawn>>
       ELSE LET l == acquire(display_lock, "ws")
            IN  /\ state' = [state EXCEPT !.current = power,
                                          !.warning = is_warning(Val(power), contract_amperage)]
                /\ IF l.holder = "ws"
                   THEN UpdateDisplay(state.current, power, l)
                   ELSE /\ display_lock' = l
                        /\ ws_task' = [pc |-> "lock_update", old |-> state.current,
                                       new |-> power, step |-> 0]
                        /\ UNCHANGED drawn
    /\ UNCHANGED <<beside_pico, blink>>

\* main.py 71-72: the lock has passed to websocket_loop
WsUpdateLockTaken ==
    /\ ws_task.pc = "lock_update"
    /\ display_lock.holder = "ws"
    /\ UpdateDisplay(ws_task.old, ws_task.new, display_lock)
    /\ UNCHANGED <<beside_pico, state, blink>>

\* display.py 139-150: the sleep after a frame is over; the next frame is
\* shown or update_display returns and the lock is released
WsAnimate ==
    /\ ws_task.pc = "animate"
    /\ IF ws_task.step < DIGIT_HEIGHT + 1
       THEN /\ drawn' = Drawn("ws", "frame", display_lock, state)
            /\ ws_task' = [ws_task EXCEPT !.step = @ + 1]
            /\ UNCHANGED display_lock
       ELSE /\ display_lock' = release(display_lock)
            /\ ws_task' = WsAt("recv")
            /\ UNCHANGED drawn
    /\ UNCHANGED <<beside_pico, state, blink>>

NextDisplay ==
    \/ BlinkWake
    \/ BlinkLockTaken
    \/ WsConnected
    \/ WsError
    \/ WsErrorLockTaken
    \/ WsReconnect
    \/ \E power \in {None, Some(100), Some(2250), Some(3000)} : WsMessage(power, 30)
    \/ WsUpdateLockTaken
    \/ WsAnimate

SpecDisplay == InitApi /\ [][NextDisplay]_vars

(***************************************************************************)
(* Properties                                                              *)
(***************************************************************************)
Count(q, x) == Cardinality({i \in 1..Len(q) : q[i] = x})
Has(q, x) == \E i \in 1..Len(q) : q[i] = x
Last(q) == IF q = <<>> THEN "" ELSE q[Len(q)]

SerialCommands ==
    {"SKVER", "SKSETRBID", "SKSETPWD C", "SKSREG SA2", "SKSCAN", "SKSREG S2",
     "SKSREG S3", "SKLL64", "SKJOIN", "SKTERM", "SKRESET", "SKSENDTO"}

WroteSerial(q) == \E i \in 1..Len(q) : q[i] \in SerialCommands

\* the step in which the waiting request reads the first line of the buffer
\* (the deadline has not passed in it)
ReadsHead ==
    /\ pc = "wait"
    /\ rx # <<>>
    /\ Len(rx') = Len(rx) - 1
    /\ \A i \in 1..Len(rx') : rx'[i].parts = rx[i + 1].parts
    /\ Count(trace', "timeout") = Count(trace, "timeout")

\* the cache file _save_cache writes for the session's scan result and address
SessionCache ==
    IF IsNone(scan_result) THEN None
    ELSE Some([channel |-> Val(scan_result).channel, pan_id |-> Val(scan_result).pan_id,
               addr |-> Val(scan_result).addr, ipv6_addr |-> ipv6_addr])

\* C1: after a failed pre-flight reconnect each of the next 12 get_power_data
\* calls returns instant_power = None and writes nothing to the serial line,
\* and the 13th call attempts reconnect() again.
C1_BackoffWindow ==
    call = "power" =>
        /\ nth \in 1..12 =>
              pc = "done" /\ IsNone(result.instant_power) /\ ~WroteSerial(trace)
        /\ nth = 13 => Has(trace, "SKTERM") /\ Has(trace, "SKJOIN")

C1_Witness == call = "power" /\ nth = 13 /\ pc = "done" /\ Has(trace, "SKJOIN")

\* the immediate reconnect of this get_power_data call has failed
ImmediateReconnectFailed ==
    /\ call = "power"
    /\ Has(trace, "timeout")
    /\ Has(trace, "rejoin_refused") \/ Has(trace, "rejoin_timeout")

\* C2: when the immediate reconnect inside a request fails, the request
\* returns None and the supervisor backs off as after a failed pre-flight
\* reconnect: the back-off window of 12 polls is armed.
C2_ImmediateFailureBacksOff ==
    (pc = "done" /\ ImmediateReconnectFailed) =>
        IsNone(result.instant_power) /\ _reconnect_backoff = 12

\* C3: the deadline that passes with one consecutive timeout already counted
\* triggers exactly one reconnect attempt; when it succeeds the same EPC is
\* requested again in the same call, and when that request is answered the
\* call returns the answer's value with consecutive_timeouts = 0.
C3_Step ==
    (/\ pc = "wait"
     /\ call = "power"
     /\ consecutive_timeouts = 1
     /\ Count(trace', "timeout") = Count(trace, "timeout") + 1)
    => /\ Count(trace', "SKJOIN") = Count(trace, "SKJOIN") + 1
       /\ Has(trace', "rejoin_ok") =>
             /\ pc' = "wait"
             /\ epc' = epc
             /\ Count(trace', "SKSENDTO") = Count(trace, "SKSENDTO") + 1
             /\ Last(trace') = "SKSENDTO"

C3_Return ==
    (/\ call = "power"
     /\ pc = "done"
     /\ Has(trace, "timeout")
     /\ Has(trace, "rejoin_ok")
     /\ ~IsNone(hit))
    => /\ result.instant_power = Some(1000)
       /\ consecutive_timeouts = 0
       /\ Count(trace, "SKJOIN") = 1
       /\ Count(trace, "SKSENDTO") = 2

C4_Step ==
    (ReadsHead /\ Head(rx).parts = Event29)
    => /\ pc' = "done"
       /\ IsNone(result'.instant_power)
       /\ _needs_reconnect'
       /\ consecutive_timeouts' = consecutive_timeouts
       /\ Last(trace') = "event29"

C4_Event29Immediate == [][C4_Step]_vars

C4_Witness ==
    /\ call = "power"
    /\ pc = "done"
    /\ Last(trace) = "event29"
    /\ _needs_reconnect
    /\ IsNone(result.instant_power)
    /\ rx # <<>>

\* C5: an EVENT 21 line with result 00 leaves the request waiting and changes
\* no session field; an EVENT 21 line with a non-zero result sets
\* _needs_reconnect and makes the request return None in that step.
C5_Step ==
    /\ (ReadsHead /\ Head(rx).parts = Event21("00"))
       => pc' = "wait" /\ epc' = epc /\ result' = result /\ UNCHANGED session
    /\ (ReadsHead /\ Head(rx).parts = Event21("01"))
       => /\ pc' = "done"
          /\ IsNone(result'.instant_power)
          /\ _needs_reconnect'
          /\ Last(trace') = "send_failed"

C5_Event21 == [][C5_Step]_vars

C5_Witness ==
    /\ call = "power"
    /\ pc = "done"
    /\ seen = Some(Event21("00"))
    /\ Last(trace) = "send_failed"
    /\ _needs_reconnect

\* the ERXUDP lines of the model that are no answer to a Get of e: the
\* multicast datagram, the datagram without the 1081 header, the frames that
\* carry another EPC
NotOurs(e) ==
    { Datagram("FF02::1", "2C", "GetRes:E7"), Datagram("FE80::C", "2C", "Raw:E7") }
        \cup { Datagram("FE80::C", "2C", ResToken(x)) :
                 x \in {EPC_INSTANT_POWER, EPC_CUMULATIVE_ENERGY} \ {e} }

\* C6: an ERXUDP line that is multicast, or has no 1081 payload, or carries
\* only other EPCs is discarded: the request stays outstanding, and a request
\* ends only with a matching response, a session-loss event or the deadline.
C6_Step ==
    /\ (ReadsHead /\ Head(rx).parts \in NotOurs(epc))
       => /\ pc' = "wait"
          /\ epc' = epc
          /\ result' = result
          /\ trace' = trace
          /\ consecutive_timeouts' = consecutive_timeouts
          /\ _needs_reconnect' = _needs_reconnect
    /\ (pc = "wait" /\ pc' = "done")
       => \/ Last(trace') \in {"event29", "send_failed", "timeout",
                               "rejoin_refused", "rejoin_timeout"}
          \/ /\ Last(trace') = "response"
             /\ rx # <<>>
             /\ Head(rx).parts \notin NotOurs(epc)

C6_DiscardNotOurs == [][C6_Step]_vars

C6_Witness ==
    /\ call = "power"
    /\ pc = "wait"
    /\ epc = EPC_INSTANT_POWER
    /\ seen \in {Some(l) : l \in NotOurs(EPC_INSTANT_POWER)}
    /\ trace = <<"SKSENDTO">>

\* C7: every reading a request returns comes from the answer to that same
\* request, never from the answer to a request that has ended.
C7_ReadingFromOwnAnswer ==
    (call = "power" /\ pc = "done" /\ ~IsNone(result.instant_power))
        => ~IsNone(hit) /\ Val(hit).tag = "cur"

C11_MalformedSkipped ==
    (call = "power" /\ pc = "done") => ~result.raised

\* C12: an answer that carries the expected EPC with an EDT of unexpected
\* length is skipped, so a request that an answer has ended returns a reading.
C12_OddLengthSkipped ==
    (call = "power" /\ pc = "done" /\ ~IsNone(hit)) => ~IsNone(result.instant_power)

\* C13: while the back-off counter is above 0 no call of get_power_data or
\* get_energy_data writes to the serial line, and the call returns a record
\* of nulls.
C13_BackoffSilencesEveryCall ==
    /\ (call = "power" /\ Has(trace, "backoff_tick"))
          => ~WroteSerial(trace) /\ IsNone(result.instant_power)
    /\ (call = "energy" /\ _reconnect_backoff > 0)
          => ~WroteSerial(trace) /\ result = NoResult

\* C14: the energy unit (E1) is requested at most once in a session, however
\* many get_energy_data calls are made and whatever the request is answered.
C14_UnitRequestedOnce == unit_asks <= 1

\* the step writes a SKSENDTO request
WritesRequest == trace' # trace /\ Last(trace') = "SKSENDTO"

\* C15: at most one request is outstanding: a step writes SKSENDTO only when
\* no request is outstanding (the client is idle between two calls), or when
\* the outstanding request ends in that very step with its deadline, and the
\* meter owes an answer to no request other than the outstanding one.
C15_Step ==
    WritesRequest =>
        /\ pc' = "wait"
        /\ \/ pc = "idle"
           \/ /\ pc = "wait"
              /\ Count(trace', "timeout") = Count(trace, "timeout") + 1
              /\ Count(trace', "SKSENDTO") = Count(trace, "SKSENDTO") + 1

C16_Step ==
    (/\ pc = "idle"
     /\ _reconnect_backoff = 0
     /\ _needs_reconnect \/ consecutive_timeouts >= 2
     /\ call' = "power")
    => /\ Has(trace', "SKTERM") /\ Count(trace', "SKJOIN") = 1
       /\ \A i \in 1..Len(trace') :
             trace'[i] = "SKSENDTO" => \E j \in 1..i : trace'[j] = "rejoin_ok"
       /\ Has(trace', "rejoin_ok") =>
             /\ ~_needs_reconnect'
             /\ consecutive_timeouts' = 0
             /\ _reconnect_backoff' = 0
             /\ pc' = "wait"
             /\ epc' = EPC_INSTANT_POWER
             /\ Count(trace', "SKSENDTO") = 1
       /\ ~Has(trace', "rejoin_ok") =>
             /\ _reconnect_backoff' = 12
             /\ ~Has(trace', "SKSENDTO")
             /\ pc' = "done"
             /\ IsNone(result'.instant_power)

C16_PreflightReconnect == [][C16_Step]_vars

C16_Witness ==
    /\ call = "power"
    /\ pc = "wait"
    /\ Has(trace, "rejoin_ok")
    /\ ~Has(trace, "timeout")
    /\ ~_needs_reconnect
    /\ consecutive_timeouts = 0

\* the session is lost: a reconnect is due, or the back-off is running
SessionLost == _needs_reconnect \/ _reconnect_backoff > 0

\* the session is joined again and a request has been written
Rejoined ==
    /\ call = "power"
    /\ pc = "wait"
    /\ Has(trace, "rejoin_ok")
    /\ Last(trace) = "SKSENDTO"
    /\ ~_needs_reconnect
    /\ _reconnect_backoff = 0

\* C17: there is no terminal state: the back-off never exceeds 12 ticks, and
\* from every state in which the session is lost, while get_power_data keeps
\* being called and the dongle goes on answering SKJOIN with EVENT 25, the
\* session is joined again and a request is written.
C17_NoTerminalState ==
    /\ [](_reconnect_backoff \in 0..12)
    /\ SessionLost ~> Rejoined

C17_Witness ==
    /\ Rejoined
    /\ nth = 13
    /\ ~Has(trace, "timeout")

\* the buckets of the specification
QualityBucket(r) ==
    CASE r >= -60 -> "excellent"
      [] r >= -70 /\ r < -60 -> "good"
      [] r >= -80 /\ r < -70 -> "fair"
      [] r < -80 -> "poor"

\* C18: get_connection_info reports the last RSSI with rssi_quality excellent
\* from -60 up, good from -70 to below -60, fair from -80 to below -70, poor
\* below -80 and null when no RSSI was seen; the mock client uses the same
\* buckets for the rssi it reports.
C18_RssiBuckets ==
    /\ call = "info" =>
          /\ result.rssi = last_rssi
          /\ IF IsNone(last_rssi) THEN IsNone(result.rssi_quality)
             ELSE result.rssi_quality = Some(QualityBucket(Val(last_rssi)))
    /\ call = "mock_info" =>
          result.rssi_quality = Some(QualityBucket(Val(result.rssi)))

C18_Witness ==
    /\ call = "info"
    /\ last_rssi = Some(-70)
    /\ result.rssi_quality = Some("good")

\* C19: a 4-byte E7 EDT is decoded as a signed 32-bit big-endian integer: a
\* raw value below 2^31 (high word below 8000) is returned as it is, a raw
\* value from 2^31 up as raw - 2^32; FFFFFED4 gives -300, 000003E8 gives 1000
\* and 7FFFFFFF gives 2147483647.
C19_SignedDecode ==
    call = "decode" =>
        /\ result.instant_power =
              Some(IF result.hi < 32768
                   THEN result.hi * 65536 + result.lo
                   ELSE (result.hi - 65536) * 65536 + result.lo)
        /\ result.edt = <<"F", "F", "F", "F", "F", "E", "D", "4">>
              => result.instant_power = Some(-300)
        /\ result.edt = <<"0", "0", "0", "0", "0", "3", "E", "8">>
              => result.instant_power = Some(1000)
        /\ result.edt = <<"7", "F", "F", "F", "F", "F", "F", "F">>
              => result.instant_power = Some(2147483647)

C19_Witness ==
    /\ call = "decode"
    /\ result.edt = <<"F", "F", "F", "F", "F", "E", "D", "4">>
    /\ result.instant_power = Some(-300)

\* C20: the Get frame for an EPC is 1081 0001 05FF01 028801 62 01 <epc> 00, and
\* parsing the response 1081 0001 028801 05FF01 72 01 <epc> <pdc> <edt> with
\* that EPC expected yields exactly <edt>.
C20_CodecRoundTrip ==
    call = "codec" =>
        /\ result.frame =
              <<"1", "0", "8", "1", "0", "0", "0", "1", "0", "5", "F", "F", "0", "1",
                "0", "2", "8", "8", "0", "1", "6", "2", "0", "1">>
                  \o result.epc \o <<"0", "0">>
        /\ result.response =
              <<"1", "0", "8", "1", "0", "0", "0", "1", "0", "2", "8", "8", "0", "1",
                "0", "5", "F", "F", "0", "1", "7", "2", "0", "1">>
                  \o result.epc \o Hex2(Len(result.edt) \div 2) \o result.edt
        /\ result.parsed = Some(result.edt)

C20_Witness ==
    /\ call = "codec"
    /\ result.epc = <<"E", "8">>
    /\ result.edt = <<>>
    /\ result.parsed = Some(<<>>)

\* C21: the E1 code maps to the multiplier 00->1, 01->0.1, 02->0.01,
\* 03->0.001, 04->0.0001, 0A->10, 0B->100, 0C->1000, 0D->10000 (written as the
\* exponent of 10), every other one-byte code gives 0.1; a cumulative reading
\* whose raw value is FFFFFFFE is null, any other is the raw value with the
\* multiplier (0.1 when no unit is known).
C21_UnitMapAndOverflow ==
    /\ call = "unit" =>
          LET e == result.edt
          IN  result.energy_unit =
                Some(CASE e = <<"0", "0">> -> 0
                       [] e = <<"0", "1">> -> -1
                       [] e = <<"0", "2">> -> -2
                       [] e = <<"0", "3">> -> -3
                       [] e = <<"0", "4">> -> -4
                       [] e = <<"0", "A">> -> 1
                       [] e = <<"0", "B">> -> 2
                       [] e = <<"0", "C">> -> 3
                       [] e = <<"0", "D">> -> 4
                       [] OTHER -> -1)
    /\ call = "cumulative" =>
          IF result.edt = <<"F", "F", "F", "F", "F", "F", "F", "E">>
          THEN result.cumulative_energy = None
          ELSE result.cumulative_energy =
                   Some(<<result.hi, result.lo,
                          IF IsNone(result.unit) THEN -1 ELSE Val(result.unit)>>)

C21_Witness ==
    /\ call = "cumulative"
    /\ result.edt = <<"F", "F", "F", "F", "F", "F", "F", "E">>
    /\ result.unit = Some(3)
    /\ result.cumulative_energy = None

\* C22 as stated: GET /api/history returns the recorded readings in the order
\* update_power_data was called; with limit = k > 0 exactly the most recent
\* min(k, number recorded), oldest first; with limit = 0 all of them.
C22_HistoryAllRecorded ==
    (call = "get_history" /\ result.limit >= 0) =>
        LET n == Len(recorded)
            k == result.limit
            m == IF k > 0 THEN Min(k, n) ELSE n
        IN  result.body = SubSeq(recorded, n - m + 1, n)

\* C22 as amended: the history keeps the 100 most recent readings; limit = k > 0
\* returns the most recent min(k, number recorded, 100) readings in the order
\* update_power_data was called, limit = 0 the most recent min(number
\* recorded, 100).
C22_HistoryMostRecent ==
    (call = "get_history" /\ result.limit >= 0) =>
        LET n == Len(recorded)
            k == result.limit
            m == IF k > 0 THEN Min(k, Min(n, 100)) ELSE Min(n, 100)
        IN  result.body = SubSeq(recorded, n - m + 1, n)

C22_Witness ==
    /\ call = "get_history"
    /\ result.limit = 0
    /\ Len(recorded) = 101
    /\ Len(result.body) = 100
    /\ result.body[1] = recorded[2]

\* C23: update_connection_info(info) changes only the keys present in info:
\* every connection field not named in the update keeps the value it had, and
\* every field named takes the value given, after any sequence of updates.
C23_PartialUpdate ==
    call = "update_connection_info" =>
        /\ DOMAIN connection_info = ConnectionKeys
        /\ \A k \in ConnectionKeys \ DOMAIN result.info :
              connection_info[k] = result.before[k]
        /\ \A k \in DOMAIN result.info : connection_info[k] = result.info[k]

C23_Witness ==
    /\ call = "update_connection_info"
    /\ DOMAIN result.info = {"rssi", "rssi_quality"}
    /\ result.before["channel"] = Some("33")
    /\ result.before["rssi"] = Some(-57)
    /\ connection_info["channel"] = Some("33")
    /\ connection_info["rssi"] = Some(-65)

\* C24: after any sequence of add_subscription and remove_subscription calls
\* the stored subscriptions hold at most one entry per endpoint; adding an
\* existing endpoint replaces its entry, adding a subscription without an
\* endpoint returns False and changes nothing, and remove_subscription returns
\* True exactly when an entry with that endpoint existed, and then removes it.
C24_OnePerEndpoint ==
    /\ \A i, j \in 1..Len(_subscriptions) :
          _subscriptions[i].endpoint = _subscriptions[j].endpoint => i = j
    /\ call = "add_subscription" =>
          LET sub == result.arg
              old == result.before
              had == \E i \in 1..Len(old) : old[i].endpoint = sub.endpoint
          IN  IF IsNone(sub.endpoint) \/ sub.endpoint = Some("")
              THEN /\ result.ret = FALSE
                   /\ _subscriptions = old
                   /\ subscriptions_file = result.file
              ELSE /\ result.ret = TRUE
                   /\ had =>
                         /\ Len(_subscriptions) = Len(old)
                         /\ \A i \in 1..Len(old) :
                               _subscriptions[i] =
                                 IF old[i].endpoint = sub.endpoint THEN sub ELSE old[i]
                   /\ ~had => _subscriptions = Append(old, sub)
    /\ call = "remove_subscription" =>
          LET old == result.before
              had == \E i \in 1..Len(old) : old[i].endpoint = result.arg
          IN  /\ result.ret = had
              /\ \A i \in 1..Len(_subscriptions) :
                    _subscriptions[i].endpoint # result.arg
              /\ Len(_subscriptions) = Len(old) - (IF had THEN 1 ELSE 0)
              /\ \A i \in 1..Len(old) :
                    old[i].endpoint # result.arg
                        => \E j \in 1..Len(_subscriptions) : _subscriptions[j] = old[i]

C24_Witness ==
    /\ call = "add_subscription"
    /\ Len(result.before) = 2
    /\ result.before[1] = [endpoint |-> Some("https://a"), keys |-> "k1"]
    /\ result.arg = [endpoint |-> Some("https://a"), keys |-> "k2"]
    /\ Len(_subscriptions) = 2
    /\ _subscriptions[1] = result.arg

\* C25: with skip_cooldown=False the actions run at most once per cooldown
\* window: a call made less than cooldown_seconds after the previous
\* non-skipped run returns False and executes no action; a call with
\* skip_cooldown=True (on a controller with a token and actions) always
\* executes and leaves the cooldown window as it was.
C25_Cooldown ==
    call = "execute_actions" =>
        /\ (~result.skip_cooldown /\ ~IsNone(result.prev)
              /\ result.at - Val(result.prev) < cooldown_seconds)
              => (result.ret = FALSE /\ result.executed = <<>>)
        /\ (result.skip_cooldown /\ access_token # "" /\ actions # <<>>)
              => /\ result.executed = actions
                 /\ _last_action_time = result.before
                 /\ last_run = result.prev

C25_Witness ==
    /\ call = "execute_actions"
    /\ result.skip_cooldown
    /\ result.executed = <<"light", "aircon_settings">>
    /\ ~IsNone(result.prev)
    /\ result.at - Val(result.prev) = 1
    /\ _last_action_time = result.before

\* the commands of a trace (without the marks for cache reads and writes and
\* for events)
SkCommands(t) ==
    SelectSeq(t, LAMBDA x : x \in {"SKVER", "SKSETRBID", "SKSETPWD C", "SKSREG SA2",
                                    "SKSCAN", "SKSREG S2", "SKSREG S3", "SKLL64",
                                    "SKJOIN", "SKTERM", "SKRESET"})

IsPrefix(a, b) == Len(a) <= Len(b) /\ SubSeq(b, 1, Len(a)) = a

\* a cache file that parses into channel, pan_id and addr
UsableCache(file) ==
    ~IsNone(file) /\ {"channel", "pan_id", "addr"} \subseteq DOMAIN Val(file)

\* the address a usable cache file gives (None: it gives none)
CachedAddress(file) ==
    IF UsableCache(file) /\ "ipv6_addr" \in DOMAIN Val(file)
    THEN Val(file).ipv6_addr ELSE None

\* the order of connect()'s commands for a cache file
ConnectOrder(file) ==
    <<"SKVER", "SKSETRBID", "SKSETPWD C", "SKSREG SA2">>
        \o (IF UsableCache(file) THEN <<>> ELSE <<"SKSCAN">>)
        \o <<"SKSREG S2", "SKSREG S3">>
        \o (IF IsNone(CachedAddress(file)) THEN <<"SKLL64">> ELSE <<>>)
        \o <<"SKJOIN">>

\* C26: connect() issues its commands in the order SKVER, SKSETRBID,
\* SKSETPWD C, SKSREG SA2 1, (SKSCAN only when no usable cache), SKSREG S2,
\* SKSREG S3, (SKLL64 only when ipv6_addr is unknown), SKJOIN; when SKVER yields
\* no EVER line it fails without sending any later command; SKJOIN is never
\* sent without a resolved ipv6_addr.
C26_Step ==
    (pc = "fresh" /\ pc' # "fresh") =>
        /\ IsPrefix(SkCommands(trace'), ConnectOrder(cache))
        /\ Has(trace', "SKJOIN") <=> pc' = "join"
        /\ Has(trace', "SKJOIN") => ~IsNone(ipv6_addr')
        /\ \A opened \in BOOLEAN, ver \in BOOLEAN, scanout \in ScanOutputs,
              ll64 \in Ll64Outputs, rssi_on \in BOOLEAN :
                (Connect(opened, ver, scanout, ll64, rssi_on) /\ opened /\ ~ver)
                    => (SkCommands(trace') = <<"SKVER">> /\ pc' = "done" /\ ~result'.ok)

C26_ConnectOrder == [][C26_Step]_vars

C26_Witness ==
    /\ call = "connect"
    /\ pc = "join"
    /\ SkCommands(trace) = <<"SKVER", "SKSETRBID", "SKSETPWD C", "SKSREG SA2",
                              "SKSREG S2", "SKSREG S3", "SKLL64", "SKJOIN">>

\* the first line among those read that reports the join's outcome is EVENT n
FirstOutcomeIs(lines, n) ==
    \E i \in 1..Len(lines) :
        /\ SubSeq(lines[i], 1, 2) = <<"EVENT", n>>
        /\ \A j \in 1..(i - 1) :
              SubSeq(lines[j], 1, 2) \notin {<<"EVENT", "24">>, <<"EVENT", "25">>}

Captured(scanout, k) == \E i \in 1..Len(scanout) : scanout[i].k = k /\ scanout[i].v # ""

\* C28: with a cache file that parses into channel, pan_id and addr, connect()
\* uses it and sends no SKSCAN, and after a successful connect
\* get_connection_info().channel is the cached channel; a missing or corrupt
\* cache is treated as absence and leads to an active scan, which succeeds
\* only if Channel, Pan ID and Addr were all captured.
C28_Step ==
    /\ (pc = "fresh" /\ pc' # "fresh" /\ Has(trace', "SKSREG SA2")) =>
          IF UsableCache(cache)
          THEN /\ ~Has(trace', "SKSCAN")
               /\ scan_result' = Some([channel |-> Val(cache).channel,
                                       pan_id |-> Val(cache).pan_id,
                                       addr |-> Val(cache).addr])
          ELSE /\ Has(trace', "SKSCAN")
               /\ \A opened \in BOOLEAN, ver \in BOOLEAN, scanout \in ScanOutputs,
                     ll64 \in Ll64Outputs, rssi_on \in BOOLEAN :
                       (Connect(opened, ver, scanout, ll64, rssi_on)
                          /\ (~IsNone(scan_result') \/ Has(trace', "SKSREG S2")))
                           => /\ Captured(scanout, "Channel")
                              /\ Captured(scanout, "Pan ID")
                              /\ Captured(scanout, "Addr")
    /\ (pc = "join" /\ pc' = "done" /\ result'.ok /\ ~Has(trace, "SKSCAN")) =>
          /\ UsableCache(cache)
          /\ get_connection_info'.channel = Some(Val(cache).channel)

C28_CacheOrScan == [][C28_Step]_vars

C28_Witness ==
    /\ call = "connect"
    /\ pc = "done"
    /\ result.ok
    /\ ~Has(trace, "SKSCAN")
    /\ get_connection_info.channel = Some("3B")

\* C29: a single get_power_data call makes at most one reconnect() attempt
\* and at most two SKSENDTO writes; the second write is the retry after a
\* successful immediate reconnect, and nothing is reconnected or written
\* after it in the same call.
C29_BoundedCall ==
    call = "power" =>
        /\ Count(trace, "SKTERM") <= 1
        /\ Count(trace, "SKSENDTO") <= 2
        /\ Count(trace, "SKSENDTO") = 2 =>
              \E i, j, k \in 1..Len(trace) :
                  /\ i < j /\ j < k
                  /\ trace[i] = "SKSENDTO"
                  /\ trace[j] = "rejoin_ok"
                  /\ trace[k] = "SKSENDTO"
                  /\ \A m \in (k + 1)..Len(trace) :
                        trace[m] \notin {"SKTERM", "SKJOIN", "SKSENDTO"}

C29_Witness ==
    /\ call = "power"
    /\ pc = "done"
    /\ Count(trace, "SKSENDTO") = 2
    /\ Last(trace) = "timeout"

\* two EPCs that differ at most in the case of their hex letters
SameEpc(a, b) ==
    LET up(c) == CASE c = "a" -> "A" [] c = "b" -> "B" [] c = "c" -> "C"
                   [] c = "d" -> "D" [] c = "e" -> "E" [] c = "f" -> "F"
                   [] OTHER -> c
    IN  Len(a) = Len(b) /\ \A i \in 1..Len(a) : up(a[i]) = up(b[i])

\* C30: the parser returns None for a payload shorter than 24 hex
\* characters, not starting with 1081, or whose ESV is not 72, 71 or 52;
\* otherwise it walks the OPC properties in order and returns the EDT of the
\* first whose EPC equals the expected EPC case-insensitively, None if none.
C30_ParseResponse ==
    call = "parse" =>
        IF \/ Len(result.data) < 24
           \/ result.ehd # <<"1", "0", "8", "1">>
           \/ result.esv \notin {<<"7", "2">>, <<"7", "1">>, <<"5", "2">>}
        THEN result.parsed = None
        ELSE LET n == Min(result.opc, Len(result.props))
                 at == {i \in 1..n : SameEpc(result.props[i].epc, result.expected_epc)}
             IN  IF at = {} THEN result.parsed = None
                 ELSE result.parsed =
                          Some(result.props[CHOOSE i \in at : \A j \in at : i <= j].edt)

C30_Witness ==
    /\ call = "parse"
    /\ result.esv = <<"5", "2">>
    /\ result.opc = 2
    /\ Len(result.props) = 2
    /\ result.props[1].epc = <<"E", "0">>
    /\ result.props[2].epc = <<"e", "7">>
    /\ result.expected_epc = <<"E", "7">>
    /\ result.parsed = Some(<<"0", "0", "0", "1">>)

\* the character of an ASCII code a command can hold
Chr(n) ==
    CASE n = 32 -> " " [] n = 58 -> ":"
      [] n \in 48..57 -> <<"0", "1", "2", "3", "4", "5", "6", "7", "8", "9">>[n - 47]
      [] n \in 65..90 -> <<"A", "B", "C", "D", "E", "F", "G", "H", "I", "J", "K", "L", "M",
                           "N", "O", "P", "Q", "R", "S", "T", "U", "V", "W", "X", "Y",
                           "Z">>[n - 64]
      [] OTHER -> "?"

\* the value of an upper-case hex digit given by its ASCII code, -1 for others
UpperHexCode(n) ==
    IF n \in 48..57 THEN n - 48 ELSE IF n \in 65..70 THEN n - 55 ELSE -1

\* C31: every request is sent as one write: the ASCII header
\* 'SKSENDTO 1 <ipv6_addr> 0E1A 1 0 <LEN> ' with a single trailing space, LEN
\* being the frame's byte length as four upper-case hex digits, immediately
\* followed by the raw frame bytes, with no CR or LF after the payload.
C31_OneWrite ==
    (call = "send" /\ ~IsNone(result.ipv6) /\ Val(result.ipv6) # <<>>) =>
        /\ Len(result.writes) = 1
        /\ LET w == result.writes[1]
               a == Val(result.ipv6)
               h == Len(a) + 26
               \* 1081 0001 05FF01 028801 62 01 <epc> 00
               frame == <<16, 129, 0, 1, 5, 255, 1, 2, 136, 1, 98, 1,
                          16 * DigitVal(result.epc[1]) + DigitVal(result.epc[2]), 0>>
               len == SubSeq(w, h - 4, h - 1)
           IN  /\ Len(w) = h + Len(frame)
               /\ [i \in 1..(h - 5) |-> Chr(w[i])]
                      = <<"S", "K", "S", "E", "N", "D", "T", "O", " ", "1", " ">> \o a
                            \o <<" ", "0", "E", "1", "A", " ", "1", " ", "0", " ">>
               /\ \A i \in 1..4 : UpperHexCode(len[i]) >= 0
               /\ 4096 * UpperHexCode(len[1]) + 256 * UpperHexCode(len[2])
                      + 16 * UpperHexCode(len[3]) + UpperHexCode(len[4]) = Len(frame)
               /\ w[h] = 32
               /\ SubSeq(w, h + 1, Len(w)) = frame

C31_Witness ==
    /\ call = "send"
    /\ result.epc = EPC_INSTANT_POWER
    /\ Len(result.writes) = 1
    /\ Len(result.writes[1]) = 39 + 26 + 14
    /\ SubSeq(result.writes[1], 61, 65) = <<48, 48, 48, 69, 32>>
    /\ result.writes[1][78] = 231

\* C32: between public calls consecutive_timeouts is below the threshold 2
\* (it is 0 or 1): every path of a request that raises it to 2 resets it to 0
\* before returning, so the pre-flight condition consecutive_timeouts >= 2 of
\* get_power_data is never true on entry.
C32_TimeoutsBelowThreshold ==
    pc \in {"idle", "done"} => consecutive_timeouts \in {0, 1}

\* a call in which the second timeout in a row was followed by a reconnect
\* that failed
C32_Witness ==
    /\ pc = "done"
    /\ call = "power"
    /\ Has(trace, "timeout")
    /\ Has(trace, "rejoin_timeout")
    /\ consecutive_timeouts = 0
    /\ ~_needs_reconnect

\* C33: in every reachable state 0 <= _reconnect_backoff <= 12 and
\* _reconnect_backoff > 0 implies _needs_reconnect; each get_power_data call
\* during the back-off decrements it by exactly 1, so the end of every
\* back-off window is followed by a reconnect attempt rather than a plain
\* request.
C33_Step ==
    /\ (pc = "idle" /\ call' = "power" /\ _reconnect_backoff > 0) =>
           /\ _reconnect_backoff' = _reconnect_backoff - 1
           /\ _needs_reconnect'
           /\ ~WroteSerial(trace')
    /\ (pc = "idle" /\ call' = "power" /\ _reconnect_backoff = 0 /\ sinceFail = 12) =>
           /\ trace'[1] = "SKTERM"
           /\ Has(trace', "SKJOIN")
           /\ \A i \in 1..Len(trace') :
                 trace'[i] = "SKSENDTO" => \E j \in 1..i : trace'[j] = "rejoin_ok"

C33_Backoff ==
    /\ [](_reconnect_backoff \in 0..12)
    /\ [](_reconnect_backoff > 0 => _needs_reconnect)
    /\ [][C33_Step]_vars

\* the last poll of a back-off window has been made
C33_Witness ==
    /\ call = "power"
    /\ pc = "done"
    /\ trace = <<"backoff_tick">>
    /\ nth = 12
    /\ _reconnect_backoff = 0
    /\ _needs_reconnect

\* this call's last reconnect() succeeded and no loss event (EVENT 29, a
\* failed EVENT 21) was read after it
ReconnectedSince ==
    \E i \in 1..Len(trace) :
        /\ trace[i] = "rejoin_ok"
        /\ \A j \in (i + 1)..Len(trace) :
               trace[j] \notin {"event29", "send_failed", "SKJOIN"}

\* C34: after a successful reconnect(), started by the pre-flight check of
\* get_power_data or by the immediate reconnect inside a request (also one of
\* get_energy_data with _needs_reconnect already set), _needs_reconnect is
\* false when the public call returns.
C34_ReconnectClearsFlag ==
    (pc = "done" /\ call \in {"power", "energy"} /\ ReconnectedSince)
        => ~_needs_reconnect

\* C35: a discarded ERXUDP line (multicast destination, data without 1081, or
\* no property with the expected EPC) leaves consecutive_timeouts,
\* _needs_reconnect, _reconnect_backoff, energy_unit, ipv6_addr and
\* scan_result unchanged; last_rssi is overwritten by every ERXUDP line with
\* at least 11 fields, discarded ones included, and by no shorter one.
C35_Step ==
    (ReadsHead /\ IsErxudp(Head(rx).parts)) =>
        LET parts == Head(rx).parts
        IN  /\ parts \in NotOurs(epc) =>
                  /\ pc' = "wait"
                  /\ UNCHANGED <<consecutive_timeouts, _needs_reconnect,
                                 _reconnect_backoff, energy_unit, ipv6_addr, scan_result>>
            /\ Len(parts) >= 11 =>
                  last_rssi' = Some(CASE parts[7] = "2C" -> 44 - 107
                                      [] parts[7] = "74" -> 116 - 107)
            /\ Len(parts) < 11 => last_rssi' = last_rssi

C35_DiscardedFrameEffect == [][C35_Step]_vars

\* a discarded line has overwritten last_rssi and nothing else: the count of
\* an earlier timeout is still there
C35_Witness ==
    /\ call = "power"
    /\ pc = "wait"
    /\ sa2
    /\ seen \in {Some(l) : l \in NotOurs(EPC_INSTANT_POWER)}
    /\ last_rssi = Some(-63)
    /\ consecutive_timeouts = 1

\* a unicast ERXUDP line whose data starts with 1081, has an ESV of 72, 71
\* or 52 and carries E7 with an EDT of 4 bytes (frames of one property)
UnicastE7Answer(parts) ==
    /\ Len(parts) >= 10
    /\ parts[1] = "ERXUDP"
    /\ SubSeq(Text(parts[3]), 1, 5) # <<"F", "F", "0", "2", ":">>
    /\ LET d == Text(parts[Len(parts)])
       IN  /\ Len(d) = 36
           /\ SubSeq(d, 1, 4) = <<"1", "0", "8", "1">>
           /\ SubSeq(d, 21, 22) \in {<<"7", "2">>, <<"7", "1">>, <<"5", "2">>}
           /\ SubSeq(d, 25, 28) = <<"E", "7", "0", "4">>

\* C36: get_power_data returns a non-null instant_power only if, during that
\* same call, a unicast ERXUDP line was read whose data starts with 1081, has
\* ESV in {72, 71, 52} and carries EPC E7 with a 4-byte EDT; in every other
\* outcome (timeout, EVENT 29, EVENT 21 failure, back-off tick, failed
\* reconnect) instant_power is null.
C36_ReadingOnlyFromAnswer ==
    call = "power" =>
        /\ ~IsNone(result.instant_power) =>
               /\ ~IsNone(hit)
               /\ UnicastE7Answer(Val(hit).parts)
               /\ Last(trace) = "response"
        /\ (pc = "done" /\ Last(trace) # "response") => IsNone(result.instant_power)
        /\ (pc = "done" /\ Last(trace) = "response" /\ ~UnicastE7Answer(Val(hit).parts))
               => IsNone(result.instant_power)

\* a call that ended with the answer, and its reading
C36_Witness ==
    /\ call = "power"
    /\ pc = "done"
    /\ result.instant_power = Some(1000)
    /\ UnicastE7Answer(Val(hit).parts)
    /\ ~IsNone(seen)

\* C37: reconnect() never scans and leaves scan_result, ipv6_addr, the
\* memoised energy_unit, last_rssi and the cache file unchanged whether it
\* succeeds or fails; on success it sets consecutive_timeouts to 0 and on
\* failure it leaves consecutive_timeouts as it was.
C37_Step ==
    (call # "reconnect" /\ call' = "reconnect") =>
        /\ ~Has(trace', "SKSCAN")
        /\ UNCHANGED <<scan_result, ipv6_addr, energy_unit, last_rssi, cache>>
        /\ result'.ok => consecutive_timeouts' = 0
        /\ ~result'.ok => consecutive_timeouts' = consecutive_timeouts

C37_ReconnectFrame == [][C37_Step]_vars

\* a reconnect() that failed on a client with a timeout counted, a unit
\* memoised, an RSSI recorded and a cache file
C37_Witness ==
    /\ call = "reconnect"
    /\ pc = "done"
    /\ ~result.ok
    /\ Has(trace, "SKJOIN")
    /\ consecutive_timeouts = 1
    /\ ~IsNone(energy_unit)
    /\ ~IsNone(last_rssi)
    /\ ~IsNone(cache)

\* C38: broadcast_power_data never raises, and when it completes no client
\* whose send failed remains in connected_clients and every client connected
\* throughout the broadcast has been sent the data exactly once, whatever
\* the WebSocket handlers do during its awaits.
C38_BroadcastSafe ==
    /\ broadcast.pc # "raised"
    /\ broadcast.pc = "done" =>
          /\ \A k \in 1..Len(broadcast.disconnected) :
                ~Has(connected_clients, broadcast.disconnected[k])
          /\ \A c \in throughout : Count(sent, c) = 1

\* C39: after a delivery round of WebPushNotifier.send every subscription
\* whose push failed with HTTP 404 or 410 is removed and every other one is
\* retained; a send within the cooldown window or with no subscriptions
\* pushes nothing and returns 0, and a send with no subscriptions does not
\* start the cooldown window.
C39_DeliveryRound ==
    (pc = "done" /\ call = "push") =>
        /\ result.pushed # <<>> =>
              LET gone == {i \in 1..Len(result.before) : result.pushed[i] \in {"404", "410"}}
              IN  /\ Len(_subscriptions) = Len(result.before) - Cardinality(gone)
                  /\ \A i \in 1..Len(result.before) :
                        Has(_subscriptions, result.before[i]) <=> i \notin gone
        /\ (result.at - result.last < cooldown_seconds \/ result.before = <<>>) =>
              /\ result.pushed = <<>>
              /\ result.ret = 0
              /\ _subscriptions = result.before
        /\ result.before = <<>> => _last_notification_time = result.last

\* C40: in the display client every display update made by blink_loop or
\* websocket_loop is made by the task that holds display_lock, blink_loop
\* never draws between the frames of an animation of websocket_loop, after
\* a WebSocket error current, warning and ws are reset before the next
\* connection attempt, and blink_loop draws no number while disconnected.
C40_DisplayLock ==
    /\ drawn.by # "main" => drawn.holder = drawn.by
    /\ drawn.by = "blink" => ~drawn.animating
    /\ ws_task.pc \in {"lock_error", "backoff", "connect"} =>
          /\ IsNone(state.ws)
          /\ IsNone(state.current)
          /\ ~state.warning
    /\ (drawn.by = "blink" /\ IsNone(drawn.ws)) => drawn.what = "error"

\* blink_loop, having waited for the lock through an animation and a
\* disconnection, draws the error sign
C40_Witness ==
    /\ drawn.by = "blink"
    /\ drawn.holder = "blink"
    /\ IsNone(drawn.ws)
    /\ drawn.what = "error"
    /\ ws_task.pc = "lock_error"

====
